---- MODULE Spec2Model ----
(***************************************************************************)
(* Verification model of lobbyguard: the Endpoint Index                    *)
(* (ConnectionTracker), the flow set kept by the FlowMonitor, the packet   *)
(* gates (PacketGuard::run of lobbyguard-common, process_packets and the   *)
(* inline loop of main of lobbyguard-cli, PacketCapture of lobbyguard-core)*)
(* the GUI supervisor with the receive loops as threads, and the startup   *)
(* and the live events of the Process/Socket Observers.                    *)
(***************************************************************************)
EXTENDS Integers, FiniteSets, Sequences, TLC

\* ------------------------------------------------------------------------
\* Bounds of the model
\* ------------------------------------------------------------------------
\* at most this many endpoints (UDP ports plus TCP port pairs) are registered
MaxEndpoints == 2
\* at most this many flow tuples are in the flow set
MaxFlows == 2

\* process ids used as inputs (0 is the id the platform reports for a closed
\* socket)
Pids == {0, 1234, 5678}
\* u16 ports used as inputs: 0 (closed socket), the matchmaking port, others
UdpPorts == {0, 6672, 9000}
TcpPorts == {0, 443, 50000}
\* <<local_port, remote_port>> of the TCP connections used as inputs
TcpConns == {<<0, 443>>, <<50000, 0>>, <<50000, 443>>, <<443, 50000>>}

\* events an unbounded channel to the GUI holds before the worker runs
MaxChannel == 2
\* the capacity of a bounded event channel
ChannelCap == 1
\* packets the GUI counts as blocked in one run
MaxBlocked == 3

\* ------------------------------------------------------------------------
\* State
\* ------------------------------------------------------------------------
VARIABLES
    tracker,     \* ConnectionTracker: [pid_set, tcp_map, udp_map]
    last,        \* the last ConnectionTracker call, [op, pid, a, b], or the last
                 \* socket-modified or flow event of an observer
    pre,         \* the ConnectionTracker as it was before that call
    program,     \* which binary runs: "index" (the tracker alone), "cli"
                 \* (process_packets), "main" (main of lobbyguard-cli), "guard"
                 \* (PacketGuard), "core" (PacketCapture), "gui", "root" (src/main.rs)
    capture_tcp, \* lobbyguard-cli --capture-tcp
    gta_flows,   \* FlowMonitor::gta_flows, a set of FlowKey
    gta_pids,    \* FlowMonitor::gta_pids
    filter_mode, \* GuardConfig::filter_mode behind SharedConfig: the Policy cell
    divert,      \* the network divert handle of the gate: "none", its filter, or
                 \* "shutdown"
    rx,          \* the packet a gate received in the step just taken and what
                 \* the gate did with it (NoPacket after any other step)
    session_mode, \* AppState::session_mode of the GUI
    is_active,    \* AppState::is_active
    packet_guard, \* AppState::packet_guard, the slot Mutex<Option<Arc<PacketGuard>>>:
                  \* 0 (None) or the index in guards of the PacketGuard it holds
    guards,       \* the gates created so far, each with the thread that runs its
                  \* receive loop: a sequence of records
    ui,           \* where the UI thread is inside AppState::set_mode
    world,        \* the platform: the live matching processes, their live flows
                  \* and the events it has emitted that no observer has consumed
                  \* yet, one queue per event stream
    sink,         \* the observability sinks: the event channels to the GUI and
                  \* the counters the GUI keeps from them
    lookup,       \* a lookup of the ConnectionTracker in progress on the gate's
                  \* thread: [pc, kind, a, b, visited, result, seen]
    observer      \* the Process/Socket Observer: [pc, failed, pid].  pc is its
                  \* position: a step of the startup snapshot ("processes",
                  \* "tcp", "udp", "scan"), "live" (consuming events), "failed"
                  \* (startup aborted), "no_wmi" (the WMI task of the
                  \* FlowMonitor has returned), or inside remove_process ("remove_tcp",
                  \* "remove_udp") for the process id pid; failed is the set of
                  \* startup steps whose query failed, kept until the first
                  \* live event is consumed

supVars == <<session_mode, is_active, packet_guard, guards, ui>>
idxVars == <<tracker, last, pre>>
gateVars == <<program, capture_tcp, lookup, world, sink, observer, supVars, gta_flows, gta_pids, filter_mode, divert, rx>>
vars == <<tracker, last, pre, program, capture_tcp, lookup, world, sink, observer, supVars, gta_flows, gta_pids,
          filter_mode, divert, rx>>

\* ------------------------------------------------------------------------
\* ConnectionTracker (lobbyguard-cli/src/connection_tracker.rs)
\* A DashMap is a function whose DOMAIN is the set of keys present.
\* ------------------------------------------------------------------------
ConnectionTracker_new ==
    [pid_set |-> {}, tcp_map |-> <<>>, udp_map |-> <<>>]

\* DashMap::remove(&key)
MapRemove(m, k) == [x \in DOMAIN m \ {k} |-> m[x]]

\* DashMap::entry(key).or_default() followed by DashSet::insert(v)
MapEntryInsert(m, k, v) ==
    [x \in DOMAIN m \cup {k} |->
        IF x = k THEN (IF k \in DOMAIN m THEN m[k] ELSE {}) \cup {v}
                 ELSE m[x]]

\* DashMap::get(key) and, if present, DashSet::remove(v)
MapGetRemove(m, k, v) ==
    IF k \in DOMAIN m THEN [m EXCEPT ![k] = @ \ {v}] ELSE m

add_process(t, pid) == [t EXCEPT !.pid_set = @ \cup {pid}]

\* remove_process without the udp_map.remove(&pid) line
remove_process_keeps_udp(t, pid) ==
    [pid_set |-> t.pid_set \ {pid},
     tcp_map |-> MapRemove(t.tcp_map, pid),
     udp_map |-> t.udp_map]

remove_process(t, pid) ==
    [pid_set |-> t.pid_set \ {pid},
     tcp_map |-> MapRemove(t.tcp_map, pid),
     udp_map |-> MapRemove(t.udp_map, pid)]

\* a contains_process that answers true for every process id
contains_process_any(t, pid) == TRUE

contains_process(t, pid) == pid \in t.pid_set

\* add_tcp_connection whose guard forgets local_port == 0
add_tcp_connection_no_local_guard(t, pid, local_port, remote_port) ==
    IF remote_port = 0 \/ pid = 0
    THEN t
    ELSE [t EXCEPT !.tcp_map = MapEntryInsert(@, pid, <<local_port, remote_port>>)]

add_tcp_connection(t, pid, local_port, remote_port) ==
    IF local_port = 0 \/ remote_port = 0 \/ pid = 0
    THEN t
    ELSE [t EXCEPT !.tcp_map = MapEntryInsert(@, pid, <<local_port, remote_port>>)]

remove_tcp_connection(t, pid, local_port, remote_port) ==
    IF local_port = 0 \/ remote_port = 0 \/ pid = 0
    THEN t
    ELSE [t EXCEPT !.tcp_map = MapGetRemove(@, pid, <<local_port, remote_port>>)]

add_udp_endpoint(t, pid, local_port) ==
    IF local_port = 0 \/ pid = 0
    THEN t
    ELSE [t EXCEPT !.udp_map = MapEntryInsert(@, pid, local_port)]

\* remove_udp_endpoint that drops the whole entry of pid
remove_udp_endpoint_drops_entry(t, pid, local_port) ==
    IF local_port = 0 \/ pid = 0
    THEN t
    ELSE [t EXCEPT !.udp_map = MapRemove(@, pid)]

remove_udp_endpoint(t, pid, local_port) ==
    IF local_port = 0 \/ pid = 0
    THEN t
    ELSE [t EXCEPT !.udp_map = MapGetRemove(@, pid, local_port)]

is_tracked_udp(t, local_port) ==
    IF local_port = 0
    THEN FALSE
    ELSE \E pid \in t.pid_set :
            pid \in DOMAIN t.udp_map /\ local_port \in t.udp_map[pid]

\* is_tracked_tcp that looks the pair up in one direction only
is_tracked_tcp_one_way(t, src_port, dst_port) ==
    IF src_port = 0 \/ dst_port = 0
    THEN FALSE
    ELSE \E pid \in t.pid_set :
            /\ pid \in DOMAIN t.tcp_map
            /\ <<src_port, dst_port>> \in t.tcp_map[pid]

is_tracked_tcp(t, src_port, dst_port) ==
    IF src_port = 0 \/ dst_port = 0
    THEN FALSE
    ELSE \E pid \in t.pid_set :
            /\ pid \in DOMAIN t.tcp_map
            /\ \/ <<src_port, dst_port>> \in t.tcp_map[pid]
               \/ <<dst_port, src_port>> \in t.tcp_map[pid]

\* number of endpoints registered in the tracker
RECURSIVE SumCard(_, _)
SumCard(m, keys) ==
    IF keys = {} THEN 0
    ELSE LET k == CHOOSE x \in keys : TRUE
         IN Cardinality(m[k]) + SumCard(m, keys \ {k})

EndpointCount(t) ==
    SumCard(t.tcp_map, DOMAIN t.tcp_map) + SumCard(t.udp_map, DOMAIN t.udp_map)

NoCall == [op |-> "none", pid |-> 0, a |-> 0, b |-> 0]

NoPacket == [gate |-> "none"]

\* FilterMode::default() is Locked
FilterMode_default == "Locked"

\* SessionMode::default() is Standard
SessionMode_default == "Standard"

\* the UI thread is outside set_mode
UiIdle == [pc |-> "idle", restart |-> FALSE, from |-> "Standard"]

\* AppState::new: no gate, nothing active
InitSupervisor ==
    /\ session_mode = SessionMode_default
    /\ is_active = FALSE
    /\ packet_guard = 0
    /\ guards = <<>>
    /\ ui = UiIdle

\* a platform that has emitted nothing.  inserted tells, for every key of the
\* flow set, the process ids it was inserted for
NoWorld == [procs |-> {}, flows |-> {}, established |-> 0,
            created |-> <<>>, deleted |-> <<>>, flow |-> <<>>, inserted |-> {}]

\* no event is in a channel and the GUI has counted nothing.  monitor_rx and
\* guard_rx are the two channels of the GUI; guard_cap is the capacity of the
\* guard channel (0: unbounded); guard_open tells that its receiver is alive;
\* event_tx tells that the gate was given a sender of the guard channel
\* (Some); pcap_writer that the CLI holds a writer of the archive file (Some);
\* write_failed that a write to the archive has failed in this session
NoSink == [monitor_rx |-> <<>>, guard_rx |-> <<>>, event_tx |-> FALSE,
           guard_cap |-> 0, guard_open |-> TRUE,
           blocked_count |-> 0, flow_count |-> 0, process_count |-> 0,
           pcap_writer |-> FALSE, write_failed |-> FALSE]

\* no lookup in progress.  kind is "udp" or "tcp", a and b the ports asked
\* for, visited the process ids the iterator has passed, result the answer,
\* seen the answers an atomic lookup would have given in the states of the
\* tracker since the lookup began
NoLookup == [pc |-> "idle", kind |-> "none", a |-> 0, b |-> 0, visited |-> {},
             result |-> FALSE, seen |-> {}]

\* an observer that consumes live events with no startup step failed
ObserverLive == [pc |-> "live", failed |-> {}, pid |-> 0]

\* the state every binary starts from
InitCommon ==
    /\ InitSupervisor
    /\ world = NoWorld
    /\ lookup = NoLookup
    /\ sink = NoSink
    /\ tracker = ConnectionTracker_new
    /\ last = NoCall
    /\ pre = ConnectionTracker_new
    /\ gta_flows = {}
    /\ gta_pids = {}
    /\ filter_mode = FilterMode_default
    /\ divert = "none"
    /\ rx = NoPacket

\* ------------------------------------------------------------------------
\* Calls of the ConnectionTracker API
\* ------------------------------------------------------------------------
Call(op, pid, a, b, t) ==
    /\ tracker' = t
    /\ last' = [op |-> op, pid |-> pid, a |-> a, b |-> b]
    /\ pre' = tracker
    /\ UNCHANGED gateVars

AddProcess(pid) == Call("add_process", pid, 0, 0, add_process(tracker, pid))

RemoveProcess(pid) ==
    Call("remove_process", pid, 0, 0, remove_process(tracker, pid))

AddTcpConnection(pid, lp, rp) ==
    /\ EndpointCount(tracker) < MaxEndpoints
    /\ Call("add_tcp", pid, lp, rp, add_tcp_connection(tracker, pid, lp, rp))

RemoveTcpConnection(pid, lp, rp) ==
    Call("remove_tcp", pid, lp, rp, remove_tcp_connection(tracker, pid, lp, rp))

AddUdpEndpoint(pid, lp) ==
    /\ EndpointCount(tracker) < MaxEndpoints
    /\ Call("add_udp", pid, lp, 0, add_udp_endpoint(tracker, pid, lp))

RemoveUdpEndpoint(pid, lp) ==
    Call("remove_udp", pid, lp, 0, remove_udp_endpoint(tracker, pid, lp))

InitIndex ==
    /\ InitCommon
    /\ program = "index"
    /\ observer = ObserverLive
    /\ capture_tcp = FALSE

NextIndex ==
    \/ \E pid \in Pids : AddProcess(pid)
    \/ \E pid \in Pids : RemoveProcess(pid)
    \/ \E pid \in Pids, c \in TcpConns : AddTcpConnection(pid, c[1], c[2])
    \/ \E pid \in Pids, c \in TcpConns : RemoveTcpConnection(pid, c[1], c[2])
    \/ \E pid \in Pids, lp \in UdpPorts : AddUdpEndpoint(pid, lp)
    \/ \E pid \in Pids, lp \in UdpPorts : RemoveUdpEndpoint(pid, lp)

SpecIndex == InitIndex /\ [][NextIndex]_vars

\* ------------------------------------------------------------------------
\* Addresses, packets and flow tuples
\* ------------------------------------------------------------------------
\* An address is <<family, host>>: family "v4", "v6" or "v6mapped" (an
\* IPv4-mapped IPv6 address ::ffff:a.b.c.d), host "lan" (a private / link-local
\* address) or "wan" (a globally routable one).
Hosts == {"lan", "wan"}
Addrs == {"v4", "v6", "v6mapped"} \X Hosts

\* IpAddr::is_global: private and link-local addresses are not global, nor is
\* an IPv4-mapped IPv6 address
is_global(a) == a[2] = "wan" /\ a[1] # "v6mapped"

\* normalize_ip: an IPv4-mapped IPv6 address becomes the IPv4 address it embeds
normalize_ip(ip) == IF ip[1] = "v6mapped" THEN <<"v4", ip[2]>> ELSE ip

FlowKey(la, lp, ra, rp) ==
    [local_addr |-> la, local_port |-> lp, remote_addr |-> ra, remote_port |-> rp]

\* the heartbeat sizes without 12
HEARTBEAT_SIZES_no_12 == {18, 63}

HEARTBEAT_SIZES == {12, 18, 63}
MATCHMAKING_SIZES == {191, 207, 223, 239}

\* The packets the kernel may hand to a gate.  len is the transport payload
\* length.  as_udp is what UdpSlice::from_slice makes of the transport bytes
\* of a TCP segment: -1 when they do not parse as a UDP header, else the
\* UDP payload length it reads from them (the upper half of the sequence number
\* lies where the UDP length field would be).
UdpPackets ==
    {k \in [net : {"ipv4", "ipv6"}, transport : {"udp"}, src : Hosts, dst : Hosts,
            sport : {6672, 9000}, dport : {6672, 9000}, len : {12, 207},
            as_udp : {-1}] :
        k.net = "ipv6" => (k.sport = 6672 /\ k.dport = 6672)}

TcpPackets ==
    {k \in [net : {"ipv4", "ipv6"}, transport : {"tcp"}, src : Hosts, dst : Hosts,
            sport : {443, 50000}, dport : {443, 50000}, len : {0, 207},
            as_udp : {-1, 12, 207}] :
        /\ k.sport # k.dport
        /\ k.as_udp # -1 => (k.net = "ipv4" /\ k.as_udp = (IF k.len = 0 THEN 12 ELSE 207))}

\* neither UDP nor TCP (ICMP): no ports
OtherPackets ==
    [net : {"ipv4"}, transport : {"other"}, src : Hosts, dst : Hosts,
     sport : {0}, dport : {0}, len : {100}, as_udp : {-1}]

\* packets the kernel takes for IPv4 UDP to port 6672 and diverts, but whose
\* IP headers the parser (etherparse) rejects
MalformedPackets ==
    [net : {"malformed"}, transport : {"udp"}, src : {"lan"}, dst : {"wan"},
     sport : {6672}, dport : {6672}, len : {12, 207}, as_udp : {-1}]

Packets == UdpPackets \cup TcpPackets \cup OtherPackets \cup MalformedPackets

SrcAddr(k) == <<IF k.net = "ipv4" THEN "v4" ELSE "v6", k.src>>
DstAddr(k) == <<IF k.net = "ipv4" THEN "v4" ELSE "v6", k.dst>>

\* ------------------------------------------------------------------------
\* Kernel filters
\* ------------------------------------------------------------------------
UdpFilter == "udp.DstPort == 6672 and udp.PayloadLength > 0 and ip"
IpFilter  == "ip"

\* FilterMode::to_divert_filter
to_divert_filter(mode) ==
    IF mode \in {"Solo", "Locked"} THEN UdpFilter ELSE IpFilter

\* constants::divert_filter
divert_filter == UdpFilter

\* the kernel's `ip`: the packet is IPv4 by the kernel's account
KernelIp(k) == k.net \in {"ipv4", "malformed"}

\* which packets the kernel diverts to a handle opened with filter f
MatchesDivertFilter(f, k) ==
    IF f = UdpFilter
    THEN k.transport = "udp" /\ k.dport = 6672 /\ k.len > 0 /\ KernelIp(k)
    ELSE f = IpFilter /\ KernelIp(k)

\* build_network_filter(capture_tcp): the UDP clause, or'ed with the TCP clause
\* when capture_tcp is set (the trailing "and (ip or ipv6)" holds of every
\* packet of the network layer)
MatchesNetworkFilter(ctcp, k) ==
    \/ /\ k.transport = "udp"
       /\ \/ k.sport = 6672 \/ k.dport = 6672
          \/ (k.sport >= 61455 /\ k.sport <= 61458)
          \/ (k.dport >= 61455 /\ k.dport <= 61458)
       /\ k.len > 0
    \/ /\ ctcp
       /\ k.transport = "tcp"
       /\ k.dport = 80 \/ k.dport = 443 \/ k.sport = 80 \/ k.sport = 443
       /\ k.len > 0

\* ------------------------------------------------------------------------
\* FlowMonitor (lobbyguard-common/src/monitor.rs, process.rs)
\* ------------------------------------------------------------------------
ProcNames == {"GTA5_Enhanced.exe", "gta5.EXE", "notepad.exe"}

\* str::to_lowercase on the names used here
to_lowercase(name) ==
    CASE name = "GTA5_Enhanced.exe" -> "gta5_enhanced.exe"
      [] name = "GTA5.exe"          -> "gta5.exe"
      [] name = "gta5.EXE"          -> "gta5.exe"
      [] OTHER                      -> name

\* GuardConfig::default().executable_names
executable_names == {"GTA5.exe", "GTA5_Enhanced.exe"}

\* GuardConfig::matches_executable
matches_executable(name) ==
    \E exe \in executable_names : to_lowercase(exe) = to_lowercase(name)

\* the flow tuples the flow layer reports: a local socket of this host talking
\* to a remote peer, the local address possibly IPv4-mapped
FlowAddresses == {<<"v4", "lan">>, <<"v6mapped", "lan">>}
\* <<local_port, remote_port>> of the flows reported
FlowPorts == {<<6672, 6672>>, <<9000, 6672>>, <<50000, 443>>}

\* the sets of process ids the initial scan finds
ScanPids == {{}, {1234}}

\* FlowMonitor::start, the WMI task up to its event loop.  The task runs beside
\* the flow task and the gate.  WMIConnection::new() fails (connected = FALSE):
\* the task warns and returns, no process is ever tracked.  Otherwise the
\* initial scan: get_matching_pids drops the error of a failed query and
\* answers Ok with the pids it has (none when the query failed, ok = FALSE).
InitialScan(connected, ok, pids) ==
    /\ program = "guard"
    /\ observer.pc = "scan"
    /\ ~connected => ~ok
    /\ gta_pids' = IF ok THEN gta_pids \cup pids ELSE gta_pids
    /\ observer' = [observer EXCEPT
                      !.pc = IF connected THEN "live" ELSE "no_wmi",
                      !.failed = IF ok THEN @ ELSE @ \cup {"processes"}]
    /\ rx' = NoPacket
    /\ last' = NoCall
    /\ UNCHANGED <<tracker, pre, program, capture_tcp, lookup, world, sink, supVars, gta_flows, filter_mode, divert>>

\* monitor_processes_blocking, creation arm
ProcessStarted(pid, name) ==
    /\ program = "guard"
    /\ observer.pc = "live"
    /\ gta_pids' = IF matches_executable(name) THEN gta_pids \cup {pid} ELSE gta_pids
    /\ observer' = ObserverLive
    /\ rx' = NoPacket
    /\ last' = NoCall
    /\ UNCHANGED <<tracker, pre, program, capture_tcp, lookup, world, sink, supVars, gta_flows, filter_mode, divert>>

\* monitor_processes_blocking, deletion arm
ProcessStopped(pid, name) ==
    /\ program = "guard"
    /\ observer.pc = "live"
    /\ gta_pids' = IF matches_executable(name) THEN gta_pids \ {pid} ELSE gta_pids
    /\ observer' = ObserverLive
    /\ rx' = NoPacket
    /\ last' = NoCall
    /\ UNCHANGED <<tracker, pre, program, capture_tcp, lookup, world, sink, supVars, gta_flows, filter_mode, divert>>

\* a flow task that inserts the key of every flow, whatever its process
flow_established_any_pid(flows, pids, key, pid) == flows \cup {key}

\* flow task, FlowEstablished: if gta_pids.contains_key(&pid) the key is
\* inserted
flow_established(flows, pids, key, pid) ==
    IF pid \in pids THEN flows \cup {key} ELSE flows

\* flow task, FlowDeleted: gta_flows.remove(&key)
flow_deleted(flows, key) == flows \ {key}

\* a flow event is consumed: last tells the event, the key built for it,
\* whether the local address of the event was IPv4-mapped, whether its process
\* id was tracked and whether the key was in the flow set
FlowEvent(op, la, key, pid, flows) ==
    /\ program = "guard"
    /\ gta_flows' = flows
    /\ last' = [op |-> op, pid |-> pid, a |-> 0, b |-> 0, key |-> key,
                mapped |-> la[1] = "v6mapped",
                tracked |-> pid \in gta_pids, had |-> key \in gta_flows]
    /\ observer' = [observer EXCEPT !.failed = {}]
    /\ rx' = NoPacket
    /\ UNCHANGED <<tracker, pre, program, capture_tcp, lookup, world, sink, supVars, gta_pids, filter_mode, divert>>

\* flow task, WinDivertEvent::FlowEstablished
FlowEstablished(la, lp, ra, rp, pid) ==
    LET key == FlowKey(normalize_ip(la), lp, normalize_ip(ra), rp)
    IN /\ program = "guard"
       /\ Cardinality(gta_flows \cup {key}) <= MaxFlows
       /\ FlowEvent("FlowEstablished", la, key, pid,
                    flow_established(gta_flows, gta_pids, key, pid))

\* flow task, WinDivertEvent::FlowDeleted (the event carries no process id
\* that is used)
FlowDeleted(la, lp, ra, rp) ==
    LET key == FlowKey(normalize_ip(la), lp, normalize_ip(ra), rp)
    IN FlowEvent("FlowDeleted", la, key, 0, flow_deleted(gta_flows, key))

\* ------------------------------------------------------------------------
\* PacketGuard (lobbyguard-common/src/engine.rs)
\* ------------------------------------------------------------------------
\* <<src_port, dst_port, is_udp>> as PacketGuard::run extracts them from the
\* IPv4 payload: UdpSlice first, then TcpSlice, else (0, 0, false)
GuardPorts(k) ==
    IF k.transport = "udp" \/ (k.transport = "tcp" /\ k.as_udp # -1)
    THEN <<k.sport, k.dport, TRUE>>
    ELSE IF k.transport = "tcp"
         THEN <<k.sport, k.dport, FALSE>>
         ELSE <<0, 0, FALSE>>

\* udp.payload().len() of the UdpSlice view
GuardUdpPayloadLen(k) == IF k.transport = "udp" THEN k.len ELSE k.as_udp

GuardKey(k)    == FlowKey(<<"v4", k.src>>, GuardPorts(k)[1], <<"v4", k.dst>>, GuardPorts(k)[2])
GuardRevKey(k) == FlowKey(<<"v4", k.dst>>, GuardPorts(k)[2], <<"v4", k.src>>, GuardPorts(k)[1])

\* a lookup of the flow set by the key of the packet only, not by rev_key
GuardTracked_key_only(flows, k) ==
    /\ k.net = "ipv4"
    /\ GuardPorts(k)[1] # 0
    /\ GuardKey(k) \in flows

\* the packet's flow tuple is in the flow set, in one direction or the other
GuardTracked(flows, k) ==
    /\ k.net = "ipv4"
    /\ GuardPorts(k)[1] # 0
    /\ GuardKey(k) \in flows \/ GuardRevKey(k) \in flows

\* the local ports of the flows of the flow set the packet belongs to
GuardLocalPorts(flows, k) ==
    IF k.net = "ipv4" /\ GuardPorts(k)[1] # 0
    THEN {f.local_port : f \in {GuardKey(k), GuardRevKey(k)} \cap flows}
    ELSE {}

\* the match on filter_mode at the end of the loop body
should_pass(mode, payload_len) ==
    CASE mode = "Solo"       -> payload_len \in HEARTBEAT_SIZES
      [] mode = "Locked"     -> payload_len \notin MATCHMAKING_SIZES
      [] mode = "Disconnect" -> FALSE

\* PacketGuard::run whose Disconnect arms behave like Locked
PacketGuard_decide_disconnect_as_locked(mode, flows, k) ==
    LET parsed == k.net = "ipv4" /\ GuardPorts(k)[1] # 0
        m2 == IF mode = "Disconnect" THEN "Locked" ELSE mode
    IN IF parsed /\ flows # {} /\ GuardKey(k) \notin flows /\ GuardRevKey(k) \notin flows
       THEN "pass"
       ELSE LET payload_len ==
                    IF parsed /\ GuardPorts(k)[3] THEN GuardUdpPayloadLen(k) ELSE 0
            IN IF should_pass(m2, payload_len) THEN "pass" ELSE "drop"

\* PacketGuard::run that never reads the UDP payload length (payload_len
\* stays 0)
PacketGuard_decide_no_payload_len(mode, flows, k) ==
    LET parsed == k.net = "ipv4" /\ GuardPorts(k)[1] # 0
    IN IF parsed /\ flows # {} /\ GuardKey(k) \notin flows /\ GuardRevKey(k) \notin flows
       THEN "pass"
       ELSE IF parsed /\ mode = "Disconnect"
       THEN "drop"
       ELSE IF should_pass(mode, 0) THEN "pass" ELSE "drop"

\* one iteration of the loop of PacketGuard::run on packet k, with filter_mode
\* as read after recv: "pass" (divert.send) or "drop" (notify_blocked)
PacketGuard_decide(mode, flows, k) ==
    LET parsed == k.net = "ipv4" /\ GuardPorts(k)[1] # 0
    IN IF parsed /\ flows # {} /\ GuardKey(k) \notin flows /\ GuardRevKey(k) \notin flows
       THEN "pass"
       ELSE IF parsed /\ mode = "Disconnect"
       THEN "drop"
       ELSE LET payload_len ==
                    IF parsed /\ GuardPorts(k)[3] THEN GuardUdpPayloadLen(k) ELSE 0
            IN IF should_pass(mode, payload_len) THEN "pass" ELSE "drop"

Received(gate, k, mode, tracked, lports, decision, handle) ==
    [gate |-> gate, pkt |-> k, mode |-> mode, tracked |-> tracked,
     local_ports |-> lports,
     sent |-> IF decision = "pass" THEN 1 ELSE 0,
     sent_on |-> IF decision = "pass" THEN handle ELSE "none",
     blocked |-> IF gate = "guard" /\ decision = "drop" THEN 1 ELSE 0,
     handle |-> handle]

\* a write of the Policy cell: shared_config.write().filter_mode = m
ConfigWrite(m) ==
    /\ program = "guard"
    /\ filter_mode' = m
    /\ rx' = NoPacket
    /\ last' = NoCall
    /\ UNCHANGED <<tracker, pre, program, capture_tcp, lookup, world, sink, observer, supVars, gta_flows, gta_pids, divert>>

\* PacketGuard::new: opens the network handle with the filter of the mode
PacketGuard_new ==
    /\ program = "guard"
    /\ divert \in {"none", "shutdown"}
    /\ divert' = to_divert_filter(filter_mode)
    /\ rx' = NoPacket
    /\ last' = NoCall
    /\ UNCHANGED <<tracker, pre, program, capture_tcp, lookup, world, sink, observer, supVars, gta_flows, gta_pids, filter_mode>>

\* PacketGuard::shutdown
PacketGuard_shutdown ==
    /\ program = "guard"
    /\ divert \in {UdpFilter, IpFilter}
    /\ divert' = "shutdown"
    /\ rx' = NoPacket
    /\ last' = NoCall
    /\ UNCHANGED <<tracker, pre, program, capture_tcp, lookup, world, sink, observer, supVars, gta_flows, gta_pids, filter_mode>>

\* kanal::Sender::try_send on the guard channel: "closed" when the receiver is
\* gone, "full" when a bounded channel holds guard_cap events, else "sent";
\* it returns at once in every case
try_send(s) ==
    IF ~s.guard_open THEN "closed"
    ELSE IF s.guard_cap # 0 /\ Len(s.guard_rx) >= s.guard_cap THEN "full"
    ELSE "sent"

\* what the loop iteration does about the event: "none" (the packet is
\* passed, notify_blocked is not called), "no_tx" (event_tx is None), or the
\* result of try_send
notify_result(s, decision) ==
    IF decision # "drop" THEN "none"
    ELSE IF ~s.event_tx THEN "no_tx"
    ELSE try_send(s)

\* notify_blocked that queues the event whatever the state of the channel
notify_blocked_queue_anyway(s, decision) ==
    IF decision = "drop" /\ s.event_tx
    THEN [s EXCEPT !.guard_rx = Append(@, "PacketBlocked")]
    ELSE s

\* PacketGuard::notify_blocked, called on a drop: `let _ = tx.try_send(..)`
notify_blocked(s, decision) ==
    IF notify_result(s, decision) = "sent"
    THEN [s EXCEPT !.guard_rx = Append(@, "PacketBlocked")]
    ELSE s

\* PacketGuard::run: recv of packet k, its decision and, on a drop, the
\* blocked-packet event
GuardRecv(k) ==
    /\ program = "guard"
    /\ divert \in {UdpFilter, IpFilter}
    /\ MatchesDivertFilter(divert, k)
    /\ (sink.event_tx /\ sink.guard_cap = 0) => Len(sink.guard_rx) < MaxChannel
    /\ LET decision == PacketGuard_decide(filter_mode, gta_flows, k)
       IN /\ rx' = Received("guard", k, filter_mode, GuardTracked(gta_flows, k),
                            GuardLocalPorts(gta_flows, k), decision, divert)
                   @@ [notify |-> notify_result(sink, decision)]
          /\ sink' = notify_blocked(sink, decision)
    /\ last' = NoCall
    /\ UNCHANGED <<tracker, pre, program, capture_tcp, lookup, world, observer, supVars, gta_flows, gta_pids, filter_mode, divert>>

\* ------------------------------------------------------------------------
\* process_packets (lobbyguard-cli/src/packet_processor.rs) and the WMI
\* observer that feeds its ConnectionTracker (wmi_monitor.rs)
\* ------------------------------------------------------------------------
\* the local port of a UDP packet: the port of the side that is not global
CliLocalPort(k) ==
    IF ~is_global(SrcAddr(k)) THEN k.sport
    ELSE IF ~is_global(DstAddr(k)) THEN k.dport
    ELSE 0

\* is_process of the packet
CliTracked(t, k) ==
    CASE k.net = "malformed" -> FALSE
      [] k.transport = "udp" -> is_tracked_udp(t, CliLocalPort(k))
      [] k.transport = "tcp" -> is_tracked_tcp(t, k.sport, k.dport)
      [] OTHER               -> FALSE

\* process_packets that passes every heartbeat-sized packet of a tracked
\* process whatever its local port
process_packets_decide_any_port(t, k) ==
    CASE k.net = "malformed" -> "drop"
      [] k.transport = "udp" ->
            IF ~CliTracked(t, k) \/ k.len \in HEARTBEAT_SIZES
            THEN "pass" ELSE "drop"
      [] k.transport = "tcp" -> "pass"
      [] OTHER               -> "drop"

\* the (pass, ...) pair of process_packets for packet k: "pass" when the
\* packet is sent back, "drop" when it is not (a packet whose headers do not
\* parse, and one that is neither UDP nor TCP, is skipped by `continue` before
\* the send)
process_packets_decide(t, k) ==
    CASE k.net = "malformed" -> "drop"
      [] k.transport = "udp" ->
            LET is_process == CliTracked(t, k)
                matching_port == CliLocalPort(k) = 6672
            IN IF ~is_process \/ (matching_port /\ k.len \in HEARTBEAT_SIZES)
               THEN "pass" ELSE "drop"
      [] k.transport = "tcp" -> "pass"
      [] OTHER               -> "drop"

\* process_packets has no Policy cell: its rule for tracked UDP (only
\* heartbeats on port 6672 pass) is the Solo rule
CliPolicy == "Solo"

CliHandle == "network"

\* an archive tap that writes the frame of every packet
archive_tap_every_packet(s, capture, ok) ==
    IF s.pcap_writer THEN (IF ok THEN "written" ELSE "failed") ELSE "none"

\* `if capture && let Some(pcap_writer) = pcap_writer.as_mut()`: what the
\* archive tap does with a packet whose capture flag is capture, when
\* write_packet answers ok: "none" (write_packet is not called), "written",
\* or "failed" (the error is logged with error!)
archive_tap(s, capture, ok) ==
    IF capture /\ s.pcap_writer THEN (IF ok THEN "written" ELSE "failed") ELSE "none"

\* the results write_packet can have for the packet: it is called only under
\* the condition of the tap
WriteResults(s, capture) ==
    IF capture /\ s.pcap_writer THEN BOOLEAN ELSE {TRUE}

\* the sinks after the tap: pcap_writer stays as it is
ArchiveSink(s, capture, ok) ==
    [s EXCEPT !.write_failed = @ \/ archive_tap(s, capture, ok) = "failed"]

\* what the tap did with the packet received, and whether a write had failed
\* before it
Archived(s, capture, ok) ==
    [archive |-> archive_tap(s, capture, ok), failed_before |-> s.write_failed]

\* the loop body of process_packets on packet k.  The loop is given the
\* tracker after initialize_wmi has returned, as main does with its inline
\* copies of both.  ok is the result of write_packet.
ProcessPackets(k) ==
    /\ program = "cli"
    /\ observer.pc \notin {"processes", "tcp", "udp"}
    /\ MatchesNetworkFilter(capture_tcp, k)
    /\ \E ok \in WriteResults(sink, CliTracked(tracker, k)) :
          /\ rx' = Received("cli", k, CliPolicy, CliTracked(tracker, k),
                            IF k.transport = "udp" /\ k.net # "malformed"
                            THEN {CliLocalPort(k)} ELSE {},
                            process_packets_decide(tracker, k), CliHandle)
                   @@ Archived(sink, CliTracked(tracker, k), ok)
          /\ sink' = ArchiveSink(sink, CliTracked(tracker, k), ok)
    /\ last' = NoCall
    /\ pre' = ConnectionTracker_new
    /\ UNCHANGED <<tracker, program, capture_tcp, lookup, world, observer, supVars, gta_flows, gta_pids, filter_mode, divert>>

\* one arm of the select loop of run_wmi_monitor
Observed(t) ==
    /\ program = "cli"
    /\ observer.pc = "live"
    /\ tracker' = t
    /\ observer' = ObserverLive
    /\ last' = NoCall
    /\ pre' = ConnectionTracker_new
    /\ rx' = NoPacket
    /\ UNCHANGED <<program, capture_tcp, lookup, world, sink, supVars, gta_flows, gta_pids, filter_mode, divert>>

\* run_wmi_monitor, process_create_events arm
WmiProcessCreated(pid, name) ==
    Observed(IF name = "GTA5_Enhanced.exe" THEN add_process(tracker, pid) ELSE tracker)

\* a step of the observer that is not a whole arm: the tracker becomes t and
\* the observer o
ObserverStep(t, o) ==
    /\ program = "cli"
    /\ tracker' = t
    /\ observer' = o
    /\ last' = NoCall
    /\ pre' = ConnectionTracker_new
    /\ rx' = NoPacket
    /\ UNCHANGED <<program, capture_tcp, lookup, world, sink, supVars, gta_flows, gta_pids, filter_mode, divert>>

\* run_wmi_monitor, process_delete_events arm: tracker.remove_process(pid).
\* The three statements of remove_process are three steps, each on its own
\* DashSet or DashMap; process_packets runs on another thread and can look the
\* tracker up between them.  First: self.pid_set.remove(&pid)
WmiProcessDeleted(pid, name) ==
    /\ observer.pc = "live"
    /\ ObserverStep([tracker EXCEPT !.pid_set = @ \ {pid}],
                    [ObserverLive EXCEPT !.pc = "remove_tcp", !.pid = pid])

\* remove_process, second statement: self.tcp_map.remove(&pid)
RemoveProcessTcp ==
    /\ observer.pc = "remove_tcp"
    /\ ObserverStep([tracker EXCEPT !.tcp_map = MapRemove(@, observer.pid)],
                    [observer EXCEPT !.pc = "remove_udp"])

\* remove_process, third statement: self.udp_map.remove(&pid)
RemoveProcessUdp ==
    /\ observer.pc = "remove_udp"
    /\ ObserverStep([tracker EXCEPT !.udp_map = MapRemove(@, observer.pid)],
                    [observer EXCEPT !.pc = "live", !.pid = 0])

\* run_wmi_monitor, udp_create_events arm
WmiUdpCreated(owning_process, local_port) ==
    /\ program = "cli"
    /\ EndpointCount(tracker) < MaxEndpoints
    /\ Observed(IF contains_process(tracker, owning_process)
                THEN add_udp_endpoint(tracker, owning_process, local_port)
                ELSE tracker)

\* run_wmi_monitor, udp_delete_events arm
WmiUdpDeleted(owning_process, local_port) ==
    Observed(IF contains_process(tracker, owning_process)
             THEN remove_udp_endpoint(tracker, owning_process, local_port)
             ELSE tracker)

\* run_wmi_monitor, tcp_create_events arm
WmiTcpCreated(owning_process, local_port, remote_port) ==
    /\ program = "cli"
    /\ EndpointCount(tracker) < MaxEndpoints
    /\ Observed(IF contains_process(tracker, owning_process)
                THEN add_tcp_connection(tracker, owning_process, local_port, remote_port)
                ELSE tracker)

\* run_wmi_monitor, tcp_delete_events arm
WmiTcpDeleted(owning_process, local_port, remote_port) ==
    Observed(IF contains_process(tracker, owning_process)
             THEN remove_tcp_connection(tracker, owning_process, local_port, remote_port)
             ELSE tracker)

\* run_wmi_monitor, udp_update_events arm, on the tracker t
udp_update(t, prev_pid, prev_port, pid, port) ==
    IF contains_process(t, prev_pid)
    THEN LET removed == remove_udp_endpoint(t, prev_pid, prev_port)
         IN IF contains_process(removed, pid)
            THEN add_udp_endpoint(removed, pid, port)
            ELSE removed
    ELSE t

\* run_wmi_monitor, tcp_update_events arm, on the tracker t
tcp_update(t, prev_pid, prev_local, prev_remote, pid, local_port, remote_port) ==
    IF prev_pid # pid /\ contains_process(t, prev_pid)
    THEN LET removed == remove_tcp_connection(t, prev_pid, prev_local, prev_remote)
         IN IF contains_process(removed, pid)
            THEN add_tcp_connection(removed, pid, local_port, remote_port)
            ELSE removed
    ELSE t

\* a socket-modified event is applied: last tells the event (b, prev_b are 0
\* for UDP), pre the tracker before it
Modified(op, prev_pid, prev_a, prev_b, pid, a, b, t) ==
    /\ program = "cli"
    /\ observer.pc = "live"
    /\ EndpointCount(t) <= MaxEndpoints
    /\ tracker' = t
    /\ last' = [op |-> op, pid |-> pid, a |-> a, b |-> b,
                prev_pid |-> prev_pid, prev_a |-> prev_a, prev_b |-> prev_b]
    /\ pre' = tracker
    /\ observer' = ObserverLive
    /\ rx' = NoPacket
    /\ UNCHANGED <<program, capture_tcp, lookup, world, sink, supVars, gta_flows, gta_pids, filter_mode, divert>>

WmiUdpModified(prev_pid, prev_port, pid, port) ==
    Modified("udp_update", prev_pid, prev_port, 0, pid, port, 0,
             udp_update(tracker, prev_pid, prev_port, pid, port))

WmiTcpModified(prev_pid, prev_local, prev_remote, pid, local_port, remote_port) ==
    Modified("tcp_update", prev_pid, prev_local, prev_remote, pid, local_port, remote_port,
             tcp_update(tracker, prev_pid, prev_local, prev_remote,
                        pid, local_port, remote_port))

\* initialize_wmi: `for x in query_result { ... }` over the processes, the TCP
\* connections <<owning_process, local_port, remote_port>> and the UDP
\* endpoints <<owning_process, local_port>> of a query result
RECURSIVE snapshot_processes(_, _)
snapshot_processes(t, processes) ==
    IF processes = {} THEN t
    ELSE LET p == CHOOSE x \in processes : TRUE
         IN snapshot_processes(add_process(t, p), processes \ {p})

RECURSIVE snapshot_tcp(_, _)
snapshot_tcp(t, tcps) ==
    IF tcps = {} THEN t
    ELSE LET c == CHOOSE x \in tcps : TRUE
         IN snapshot_tcp(IF contains_process(t, c[1])
                         THEN add_tcp_connection(t, c[1], c[2], c[3]) ELSE t,
                         tcps \ {c})

RECURSIVE snapshot_udp(_, _)
snapshot_udp(t, udps) ==
    IF udps = {} THEN t
    ELSE LET u == CHOOSE x \in udps : TRUE
         IN snapshot_udp(IF contains_process(t, u[1])
                         THEN add_udp_endpoint(t, u[1], u[2]) ELSE t,
                         udps \ {u})

\* the query results used as inputs of the startup snapshot
SnapshotProcesses == {{}, {1234}}
SnapshotTcp == {{}, {<<1234, 50000, 443>>}, {<<5678, 50000, 443>>}}
SnapshotUdp == {{}, {<<1234, 6672>>}, {<<5678, 6672>>}}

\* a step of initialize_wmi: `if let Ok(result) = query { ... }` with nothing
\* in place of an else; ok is whether the query succeeded
InitializeWmiStep(step, next, ok, t) ==
    /\ observer.pc = step
    /\ ObserverStep(IF ok THEN t ELSE tracker,
                    [observer EXCEPT !.pc = next,
                                     !.failed = IF ok THEN @ ELSE @ \cup {step}])

InitializeWmiProcesses(ok, processes) ==
    InitializeWmiStep("processes", "tcp", ok, snapshot_processes(tracker, processes))

InitializeWmiTcp(ok, tcps) ==
    InitializeWmiStep("tcp", "udp", ok, snapshot_tcp(tracker, tcps))

InitializeWmiUdp(ok, udps) ==
    InitializeWmiStep("udp", "live", ok, snapshot_udp(tracker, udps))

\* ------------------------------------------------------------------------
\* lobbyguard-cli/src/main.rs: the gate and the observer written inline in
\* main.  Here tracker.udp_map maps a pid to a Vec<u16> of local ports and
\* tracker.tcp_map maps a pid to a Vec of <<remote_port, local_port>>: the
\* values are sequences, not sets.
\* ------------------------------------------------------------------------
\* DashMap::entry(key).or_default() followed by Vec::push(v)
VecPush(m, k, v) ==
    [x \in DOMAIN m \cup {k} |->
        IF x = k THEN Append(IF k \in DOMAIN m THEN m[k] ELSE <<>>, v)
                 ELSE m[x]]

\* DashMap::get_mut(key) and, if present, Vec::retain(|e| e != v)
VecRetain(m, k, v) ==
    IF k \in DOMAIN m
    THEN [m EXCEPT ![k] = SelectSeq(@, LAMBDA e : e # v)]
    ELSE m

\* number of elements of the Vecs of the two maps
RECURSIVE SumLen(_, _)
SumLen(m, keys) ==
    IF keys = {} THEN 0
    ELSE LET k == CHOOSE x \in keys : TRUE
         IN Len(m[k]) + SumLen(m, keys \ {k})

MainEndpointCount(t) ==
    SumLen(t.tcp_map, DOMAIN t.tcp_map) + SumLen(t.udp_map, DOMAIN t.udp_map)

\* is_process of a UDP packet: pid_set.iter().any(|pid| udp_map.view(pid,
\* |_, ports| ports.contains(&local_port)).is_some()); view returns Some(..)
\* whenever the pid has an entry, whatever the closure answers
main_udp_is_process(t, local_port) ==
    \E pid \in t.pid_set : pid \in DOMAIN t.udp_map

\* is_process of a TCP segment: again .is_some() of the view
main_tcp_is_process(t) ==
    \E pid \in t.pid_set : pid \in DOMAIN t.tcp_map

MainTracked(t, k) ==
    CASE k.net = "malformed" -> FALSE
      [] k.transport = "udp" -> main_udp_is_process(t, CliLocalPort(k))
      [] k.transport = "tcp" -> main_tcp_is_process(t)
      [] OTHER               -> FALSE

\* the pass bit of the loop body of main for packet k ("drop" too when the
\* loop skips the packet by `continue` before the send)
main_decide(t, k) ==
    CASE k.net = "malformed" -> "drop"
      [] k.transport = "udp" ->
            LET is_process == MainTracked(t, k)
                matching_port == CliLocalPort(k) = 6672
            IN IF ~is_process \/ (matching_port /\ k.len \in HEARTBEAT_SIZES)
               THEN "pass" ELSE "drop"
      [] k.transport = "tcp" -> "pass"
      [] OTHER               -> "drop"

\* the receive loop of main on packet k; the task is spawned after the
\* initial queries.  ok is the result of write_packet.
MainRecv(k) ==
    /\ program = "main"
    /\ observer.pc = "live"
    /\ MatchesNetworkFilter(capture_tcp, k)
    /\ \E ok \in WriteResults(sink, MainTracked(tracker, k)) :
          /\ rx' = Received("main", k, CliPolicy, MainTracked(tracker, k),
                            IF k.transport = "udp" /\ k.net # "malformed"
                            THEN {CliLocalPort(k)} ELSE {},
                            main_decide(tracker, k), CliHandle)
                   @@ Archived(sink, MainTracked(tracker, k), ok)
          /\ sink' = ArchiveSink(sink, MainTracked(tracker, k), ok)
    /\ UNCHANGED <<idxVars, program, capture_tcp, lookup, world, observer, supVars, gta_flows, gta_pids, filter_mode, divert>>

\* one arm of the select loop of main
MainObserved(t) ==
    /\ program = "main"
    /\ observer.pc = "live"
    /\ tracker' = t
    /\ rx' = NoPacket
    /\ UNCHANGED <<last, pre, program, capture_tcp, lookup, world, sink, observer, supVars, gta_flows, gta_pids, filter_mode, divert>>

\* main, the initial queries: `for x in result { ... }` over the Vec a query
\* answers, of process ids, of TCP connections <<owning_process, local_port,
\* remote_port>> and of UDP endpoints <<owning_process, local_port>>
RECURSIVE main_query_tcp(_, _)
main_query_tcp(t, tcps) ==
    IF tcps = <<>> THEN t
    ELSE LET c == Head(tcps)
         IN main_query_tcp(IF c[1] \in t.pid_set
                           THEN [t EXCEPT !.tcp_map = VecPush(@, c[1], <<c[3], c[2]>>)]
                           ELSE t,
                           Tail(tcps))

RECURSIVE main_query_udp(_, _)
main_query_udp(t, udps) ==
    IF udps = <<>> THEN t
    ELSE LET u == Head(udps)
         IN main_query_udp(IF u[1] \in t.pid_set
                           THEN [t EXCEPT !.udp_map = VecPush(@, u[1], u[2])]
                           ELSE t,
                           Tail(udps))

\* the query results used as inputs of the initial queries of main
MainProcesses == {<<>>, <<1234>>}
MainTcps == {<<>>, <<<<1234, 50000, 443>>>>, <<<<5678, 50000, 443>>>>}
MainUdps == {<<>>, <<<<1234, 6672>>>>, <<<<5678, 6672>>>>}

\* one initial query of main: `if let Ok(result) = query { ... } else
\* { panic!(..) }`; ok is whether the query succeeded
MainQueryStep(step, next, ok, t) ==
    /\ program = "main"
    /\ observer.pc = step
    /\ tracker' = IF ok THEN t ELSE tracker
    /\ observer' = [observer EXCEPT !.pc = IF ok THEN next ELSE "failed",
                                    !.failed = IF ok THEN @ ELSE @ \cup {step}]
    /\ rx' = NoPacket
    /\ UNCHANGED <<last, pre, program, capture_tcp, lookup, world, sink, supVars, gta_flows, gta_pids, filter_mode, divert>>

MainQueryProcesses(ok, processes) ==
    MainQueryStep("processes", "tcp", ok,
                  [tracker EXCEPT !.pid_set = @ \cup {processes[i] : i \in DOMAIN processes}])

MainQueryTcp(ok, tcps) ==
    MainQueryStep("tcp", "udp", ok, main_query_tcp(tracker, tcps))

MainQueryUdp(ok, udps) ==
    MainQueryStep("udp", "live", ok, main_query_udp(tracker, udps))

\* main, process_create_events arm
MainProcessCreated(pid, name) ==
    MainObserved(IF name = "GTA5_Enhanced.exe" THEN add_process(tracker, pid) ELSE tracker)

\* main, process_delete_events arm
MainProcessDeleted(pid, name) ==
    MainObserved([pid_set |-> tracker.pid_set \ {pid},
                  tcp_map |-> MapRemove(tracker.tcp_map, pid),
                  udp_map |-> MapRemove(tracker.udp_map, pid)])

\* main, udp_create_events arm
MainUdpCreated(owning_process, local_port) ==
    /\ program = "main"
    /\ MainEndpointCount(tracker) < MaxEndpoints
    /\ MainObserved(IF owning_process \in tracker.pid_set
                    THEN [tracker EXCEPT !.udp_map = VecPush(@, owning_process, local_port)]
                    ELSE tracker)

\* main, udp_delete_events arm
MainUdpDeleted(owning_process, local_port) ==
    MainObserved([tracker EXCEPT !.udp_map = VecRetain(@, owning_process, local_port)])

\* main, tcp_create_events arm
MainTcpCreated(owning_process, local_port, remote_port) ==
    /\ program = "main"
    /\ MainEndpointCount(tracker) < MaxEndpoints
    /\ MainObserved(IF owning_process \in tracker.pid_set
                    THEN [tracker EXCEPT
                            !.tcp_map = VecPush(@, owning_process, <<remote_port, local_port>>)]
                    ELSE tracker)

\* main, tcp_delete_events arm
MainTcpDeleted(owning_process, local_port, remote_port) ==
    MainObserved([tracker EXCEPT
                    !.tcp_map = VecRetain(@, owning_process, <<remote_port, local_port>>)])

\* ------------------------------------------------------------------------
\* PacketCapture (lobbyguard-core/src/capture.rs)
\* ------------------------------------------------------------------------
\* PacketCapture::process_packet: Err when the headers do not parse, else
\* whether the UDP payload has a heartbeat size
process_packet(k) ==
    IF k.net # "ipv4" \/ k.transport # "udp"
    THEN "err"
    ELSE IF k.len \in HEARTBEAT_SIZES THEN "pass" ELSE "drop"

\* PacketCapture::run: recv of packet k; the packet is sent when process_packet
\* returned passed = true
CaptureRecv(k) ==
    /\ program = "core"
    /\ MatchesDivertFilter(divert_filter, k)
    /\ rx' = Received("core", k, "Solo", FALSE, {},
                      IF process_packet(k) = "pass" THEN "pass" ELSE "drop",
                      divert_filter)
    /\ UNCHANGED <<idxVars, program, capture_tcp, lookup, world, sink, observer, supVars, gta_flows, gta_pids, filter_mode, divert>>

\* ------------------------------------------------------------------------
\* The gates: one of the three binaries runs
\* ------------------------------------------------------------------------
InitGate ==
    /\ InitCommon
    /\ program \in {"guard", "cli", "main", "core"}
    /\ capture_tcp \in BOOLEAN
    /\ capture_tcp => program \in {"cli", "main"}
    /\ observer = CASE program \in {"cli", "main"} -> [ObserverLive EXCEPT !.pc = "processes"]
                    [] program = "guard"           -> [ObserverLive EXCEPT !.pc = "scan"]
                    [] OTHER                       -> ObserverLive

NextGate ==
    \* lobbyguard-common: FlowMonitor, the Policy cell and PacketGuard
    \/ \E connected \in BOOLEAN, ok \in BOOLEAN, pids \in ScanPids :
          InitialScan(connected, ok, pids)
    \/ \E pid \in Pids \ {0}, name \in ProcNames : ProcessStarted(pid, name)
    \/ \E pid \in Pids \ {0}, name \in ProcNames : ProcessStopped(pid, name)
    \/ \E la \in FlowAddresses, pp \in FlowPorts, pid \in Pids \ {0} :
          FlowEstablished(la, pp[1], <<"v4", "wan">>, pp[2], pid)
    \/ \E la \in FlowAddresses, pp \in FlowPorts :
          FlowDeleted(la, pp[1], <<"v4", "wan">>, pp[2])
    \/ \E m \in {"Solo", "Locked", "Disconnect"} : ConfigWrite(m)
    \/ PacketGuard_new
    \/ PacketGuard_shutdown
    \/ \E k \in Packets : GuardRecv(k)
    \* lobbyguard-cli: run_wmi_monitor and process_packets
    \/ \E pid \in Pids \ {0}, name \in ProcNames : WmiProcessCreated(pid, name)
    \/ \E pid \in Pids \ {0}, name \in ProcNames : WmiProcessDeleted(pid, name)
    \/ \E pid \in Pids, lp \in UdpPorts : WmiUdpCreated(pid, lp)
    \/ \E pid \in Pids, lp \in UdpPorts : WmiUdpDeleted(pid, lp)
    \/ \E pid \in Pids, lp \in {0, 50000} : WmiTcpCreated(pid, lp, 443)
    \/ \E pid \in Pids, lp \in {0, 50000} : WmiTcpDeleted(pid, lp, 443)
    \/ RemoveProcessTcp
    \/ RemoveProcessUdp
    \/ \E prev_pid \in Pids \ {0}, pid \in Pids \ {0} :
          WmiUdpModified(prev_pid, 6672, pid, 9000)
    \/ \E prev_pid \in Pids \ {0}, pid \in Pids \ {0} :
          WmiTcpModified(prev_pid, 50000, 443, pid, 443, 50000)
    \/ \E ok \in BOOLEAN, processes \in SnapshotProcesses : InitializeWmiProcesses(ok, processes)
    \/ \E ok \in BOOLEAN, tcps \in SnapshotTcp : InitializeWmiTcp(ok, tcps)
    \/ \E ok \in BOOLEAN, udps \in SnapshotUdp : InitializeWmiUdp(ok, udps)
    \/ \E k \in Packets : ProcessPackets(k)
    \* lobbyguard-cli: the observer and the gate inline in main.rs
    \/ \E pid \in Pids \ {0}, name \in ProcNames : MainProcessCreated(pid, name)
    \/ \E pid \in Pids \ {0}, name \in ProcNames : MainProcessDeleted(pid, name)
    \/ \E pid \in Pids \ {0}, lp \in {6672, 9000} : MainUdpCreated(pid, lp)
    \/ \E pid \in Pids \ {0}, lp \in {6672, 9000} : MainUdpDeleted(pid, lp)
    \/ \E pid \in Pids \ {0} : MainTcpCreated(pid, 50000, 443)
    \/ \E pid \in Pids \ {0} : MainTcpDeleted(pid, 50000, 443)
    \/ \E k \in Packets : MainRecv(k)
    \/ \E ok \in BOOLEAN, processes \in MainProcesses : MainQueryProcesses(ok, processes)
    \/ \E ok \in BOOLEAN, tcps \in MainTcps : MainQueryTcp(ok, tcps)
    \/ \E ok \in BOOLEAN, udps \in MainUdps : MainQueryUdp(ok, udps)
    \* lobbyguard-core: PacketCapture
    \/ \E k \in Packets : CaptureRecv(k)

SpecGate == InitGate /\ [][NextGate]_vars

TypeGate == rx.gate \in {"none", "guard", "cli", "main", "core"}

\* ------------------------------------------------------------------------
\* The receive loops as threads, and the GUI supervisor that starts and stops
\* PacketGuard (lobbyguard-gui/src/main.rs)
\* ------------------------------------------------------------------------
\* at most this many gates are created
MaxGuards == 2

\* src/main.rs: the loop body after recv; a packet that does not parse is
\* skipped by `continue`, a heartbeat is sent, anything else is not
root_decide(k) ==
    IF k.net # "ipv4" \/ k.transport # "udp"
    THEN "drop"
    ELSE IF k.len \in HEARTBEAT_SIZES THEN "pass" ELSE "drop"

\* SessionMode::to_filter_mode; "None" for Standard
to_filter_mode(m) == IF m = "Standard" THEN "None" ELSE m

\* the packets the kernel queues for the loops: a heartbeat and a join request
\* lan:6672 -> wan:6672
RunPackets ==
    {k \in UdpPackets : /\ k.net = "ipv4" /\ k.src = "lan" /\ k.dst = "wan"
                        /\ k.sport = 6672 /\ k.dport = 6672}

\* the same and a packet whose headers do not parse
SendPackets == RunPackets \cup {k \in MalformedPackets : k.len = 12}

\* A gate and the thread running its receive loop.  handle is the state of the
\* divert handle: "open"; "draining" (shut down while a packet is still
\* queued: recv hands that packet out first); "closed" (shut down and empty:
\* recv fails with NoData).  pc is the position of the thread: "recv",
\* "read" (a packet is received, filter_mode not yet read), "decide", "exit"
\* (run has returned) or "done".  mode is the filter_mode the thread has read
\* for the packet it holds.  Which packet the thread holds is told when it is
\* decided: nothing depends on it before.
NewGuard(filter) ==
    [filter |-> filter, handle |-> "open", pc |-> "recv", mode |-> "none"]

\* ShutdownHandle::shutdown on gate g (a second shutdown changes nothing)
Shutdown(gs, g, queued) ==
    IF gs[g].handle = "open"
    THEN [gs EXCEPT ![g].handle = IF queued THEN "draining" ELSE "closed"]
    ELSE gs

\* which packets the kernel diverts to the handle of gate g
LoopMatches(g, k) ==
    IF program = "cli"
    THEN MatchesNetworkFilter(capture_tcp, k)
    ELSE MatchesDivertFilter(guards[g].filter, k)

\* recv returns a packet
LoopRecv(g) ==
    /\ g \in DOMAIN guards
    /\ guards[g].pc = "recv"
    /\ guards[g].handle \in {"open", "draining"}
    /\ guards' = [guards EXCEPT
                    ![g].handle = IF @ = "draining" THEN "closed" ELSE @,
                    ![g].pc = IF program = "gui" THEN "read" ELSE "decide",
                    ![g].mode = IF program = "gui" THEN "none" ELSE CliPolicy]
    /\ rx' = NoPacket
    /\ UNCHANGED <<idxVars, program, capture_tcp, lookup, world, sink, observer, session_mode, is_active, packet_guard,
                   ui, gta_flows, gta_pids, filter_mode, divert>>

\* a loop that does not break on NoData but calls recv again
LoopNoData_continue(g) ==
    /\ g \in DOMAIN guards
    /\ guards[g].pc = "recv"
    /\ guards[g].handle = "closed"
    /\ guards' = [guards EXCEPT ![g].pc = "recv"]
    /\ rx' = NoPacket
    /\ UNCHANGED <<idxVars, program, capture_tcp, lookup, world, sink, observer, session_mode, is_active, packet_guard,
                   ui, gta_flows, gta_pids, filter_mode, divert>>

\* recv fails with NoData, the shutdown sentinel: the loop ends
LoopNoData(g) ==
    /\ g \in DOMAIN guards
    /\ guards[g].pc = "recv"
    /\ guards[g].handle = "closed"
    /\ guards' = [guards EXCEPT ![g].pc = IF program = "gui" THEN "exit" ELSE "done"]
    /\ rx' = NoPacket
    /\ UNCHANGED <<idxVars, program, capture_tcp, lookup, world, sink, observer, session_mode, is_active, packet_guard,
                   ui, gta_flows, gta_pids, filter_mode, divert>>

\* PacketGuard::run that takes FilterMode::default(), not the Policy cell
ReadFilterMode_default(g) == FilterMode_default

\* PacketGuard::run: let filter_mode = config.read().filter_mode
ReadFilterMode(g) == filter_mode

LoopReadMode(g) ==
    /\ g \in DOMAIN guards
    /\ guards[g].pc = "read"
    /\ guards' = [guards EXCEPT ![g].mode = ReadFilterMode(g), ![g].pc = "decide"]
    /\ rx' = NoPacket
    /\ UNCHANGED <<idxVars, program, capture_tcp, lookup, world, sink, observer, session_mode, is_active, packet_guard,
                   ui, gta_flows, gta_pids, filter_mode, divert>>

\* the decision of the loop of the running binary for the packet k it holds
LoopDecision(g, k) ==
    CASE program = "gui"  -> PacketGuard_decide(guards[g].mode, gta_flows, k)
      [] program = "cli"  -> process_packets_decide(tracker, k)
      [] program = "core" -> IF process_packet(k) = "pass" THEN "pass" ELSE "drop"
      [] OTHER            -> root_decide(k)

\* what the loop does with the Err of divert.send: process_packets logs it
\* (error!), PacketGuard::run discards it (let _ =), PacketCapture::run
\* returns it with `?`, src/main.rs panics on it (expect)
SendErrorLogged == program \in {"cli", "root"}

SendErrorEndsLoop == program \in {"core", "root"}

\* the rest of the loop body: the packet is sent or not, and the send succeeds
\* (ok) or fails; rx also tells which gate decided and how many gates had been
\* started by then
LoopDecide(g, k, ok) ==
    /\ g \in DOMAIN guards
    /\ guards[g].pc = "decide"
    /\ LoopMatches(g, k)
    /\ LoopDecision(g, k) = "drop" => ok
    /\ rx' = Received(IF program = "gui" THEN "guard" ELSE program,
                      k, guards[g].mode,
                      program = "gui" /\ GuardTracked(gta_flows, k), {},
                      LoopDecision(g, k), guards[g].filter)
             @@ [guard |-> g, started |-> Len(guards), handle_state |-> guards[g].handle,
                 send_failed |-> ~ok,
                 logged |-> ~ok /\ SendErrorLogged]
    /\ guards' = [guards EXCEPT
                    ![g].pc = IF ~ok /\ SendErrorEndsLoop THEN "done" ELSE "recv",
                    ![g].mode = "none"]
    /\ UNCHANGED <<idxVars, program, capture_tcp, lookup, world, sink, observer, session_mode, is_active, packet_guard,
                   ui, gta_flows, gta_pids, filter_mode, divert>>

\* AppState::start, the spawned closure after guard.run() has returned:
\* *packet_guard_store.lock().unwrap() = None
LoopExit(g) ==
    /\ g \in DOMAIN guards
    /\ guards[g].pc = "exit"
    /\ packet_guard' = 0
    /\ guards' = [guards EXCEPT ![g].pc = "done"]
    /\ rx' = NoPacket
    /\ UNCHANGED <<idxVars, program, capture_tcp, lookup, world, sink, observer, session_mode, is_active,
                   ui, gta_flows, gta_pids, filter_mode, divert>>

\* the steps of the thread of gate g
LoopRun(g) ==
    \/ LoopRecv(g)
    \/ LoopNoData(g)
    \/ LoopReadMode(g)
    \/ \E k \in SendPackets, ok \in BOOLEAN : LoopDecide(g, k, ok)
    \/ LoopExit(g)

\* Ctrl-C in lobbyguard-cli and in src/main.rs: shutdown_handle.shutdown().
\* ui.pc is the position of the main task: "idle" before Ctrl-C, "shutdown"
\* once the handle is shut down, "exited" when main has returned.
CtrlC(queued) ==
    /\ program \in {"cli", "root"}
    /\ ui.pc = "idle"
    /\ guards[1].handle = "open"
    /\ guards' = Shutdown(guards, 1, queued)
    /\ ui' = [ui EXCEPT !.pc = "shutdown"]
    /\ rx' = NoPacket
    /\ UNCHANGED <<idxVars, program, capture_tcp, lookup, world, sink, observer, session_mode, is_active, packet_guard,
                   gta_flows, gta_pids, filter_mode, divert>>

\* lobbyguard-cli main after the shutdown: net_handle.abort(), fastrace::flush()
\* and return.  The handle of the gate task is not awaited.  The task has no
\* await point inside its loop, so the abort does not interrupt a packet being
\* processed; the thread goes on until its recv fails.
AbortGate ==
    /\ program = "cli"
    /\ ui.pc = "shutdown"
    /\ ui' = [ui EXCEPT !.pc = "exited"]
    /\ rx' = NoPacket
    /\ UNCHANGED <<idxVars, program, capture_tcp, lookup, world, sink, observer, session_mode, is_active, packet_guard,
                   guards, gta_flows, gta_pids, filter_mode, divert>>

\* src/main.rs after the shutdown: handle.await.unwrap(), then return
AwaitGate ==
    /\ program = "root"
    /\ ui.pc = "shutdown"
    /\ guards[1].pc = "done"
    /\ ui' = [ui EXCEPT !.pc = "exited"]
    /\ rx' = NoPacket
    /\ UNCHANGED <<idxVars, program, capture_tcp, lookup, world, sink, observer, session_mode, is_active, packet_guard,
                   guards, gta_flows, gta_pids, filter_mode, divert>>

\* AppState::set_mode up to the call of stop or start: session_mode is set
\* and, unless the mode is Standard, the Policy cell is written
SetMode(m) ==
    /\ program = "gui"
    /\ ui.pc = "idle"
    /\ m # "Standard" => Len(guards) < MaxGuards
    /\ session_mode' = m
    /\ filter_mode' = IF to_filter_mode(m) = "None" THEN filter_mode ELSE to_filter_mode(m)
    /\ ui' = [pc |-> IF to_filter_mode(m) = "None" \/ is_active THEN "stop" ELSE "start",
              restart |-> to_filter_mode(m) # "None",
              from |-> IF is_active THEN session_mode ELSE "Standard"]
    /\ rx' = NoPacket
    /\ UNCHANGED <<idxVars, program, capture_tcp, lookup, world, sink, observer, is_active, packet_guard, guards,
                   gta_flows, gta_pids, divert>>

\* AppState::stop
UiStop(queued) ==
    /\ program = "gui"
    /\ ui.pc = "stop"
    /\ guards' = IF packet_guard # 0 THEN Shutdown(guards, packet_guard, queued) ELSE guards
    /\ packet_guard' = 0
    /\ is_active' = FALSE
    /\ ui' = IF ui.restart THEN [ui EXCEPT !.pc = "start"] ELSE UiIdle
    /\ rx' = NoPacket
    /\ UNCHANGED <<idxVars, program, capture_tcp, lookup, world, sink, observer, session_mode,
                   gta_flows, gta_pids, filter_mode, divert>>

\* AppState::start
UiStart ==
    /\ program = "gui"
    /\ ui.pc = "start"
    /\ IF packet_guard # 0
       THEN UNCHANGED <<guards, packet_guard, is_active>>
       ELSE /\ guards' = Append(guards, NewGuard(to_divert_filter(filter_mode)))
            /\ packet_guard' = Len(guards) + 1
            /\ is_active' = TRUE
    /\ ui' = UiIdle
    /\ rx' = NoPacket
    /\ UNCHANGED <<idxVars, program, capture_tcp, lookup, world, sink, observer, session_mode,
                   gta_flows, gta_pids, filter_mode, divert>>

\* CaptureModel::stop up to the await: handle.shutdown()
CaptureStop(queued) ==
    /\ program = "core"
    /\ ui.pc = "idle"
    /\ guards' = Shutdown(guards, 1, queued)
    /\ ui' = [ui EXCEPT !.pc = "shutdown"]
    /\ rx' = NoPacket
    /\ UNCHANGED <<idxVars, program, capture_tcp, lookup, world, sink, observer, session_mode, is_active, packet_guard,
                   gta_flows, gta_pids, filter_mode, divert>>

\* CaptureModel::stop: task.await returns when PacketCapture::run has returned
CaptureAwait ==
    /\ program = "core"
    /\ ui.pc = "shutdown"
    /\ guards[1].pc = "done"
    /\ ui' = [ui EXCEPT !.pc = "exited"]
    /\ rx' = NoPacket
    /\ UNCHANGED <<idxVars, program, capture_tcp, lookup, world, sink, observer, session_mode, is_active, packet_guard,
                   guards, gta_flows, gta_pids, filter_mode, divert>>

\* the GUI starts with no gate; lobbyguard-cli, src/main.rs and CaptureModel
\* open their handle and start their loop before anything else happens
InitRun ==
    /\ tracker = ConnectionTracker_new
    /\ last = NoCall
    /\ pre = ConnectionTracker_new
    /\ program \in {"gui", "cli", "root", "core"}
    /\ capture_tcp = FALSE
    /\ observer = ObserverLive
    /\ world = NoWorld
    /\ lookup = NoLookup
    /\ sink = NoSink
    /\ gta_flows = {}
    /\ gta_pids = {}
    /\ filter_mode = FilterMode_default
    /\ divert = "none"
    /\ rx = NoPacket
    /\ session_mode = SessionMode_default
    /\ is_active = FALSE
    /\ packet_guard = 0
    /\ ui = UiIdle
    /\ guards = IF program = "gui" THEN <<>>
                ELSE <<NewGuard(IF program = "cli" THEN CliHandle ELSE divert_filter)>>

NextRun ==
    \/ \E m \in {"Standard", "Solo", "Locked", "Disconnect"} : SetMode(m)
    \/ \E queued \in BOOLEAN : UiStop(queued)
    \/ UiStart
    \/ \E queued \in BOOLEAN : CtrlC(queued)
    \/ AbortGate
    \/ AwaitGate
    \/ \E g \in 1..MaxGuards : LoopRecv(g)
    \/ \E g \in 1..MaxGuards : LoopNoData(g)
    \/ \E g \in 1..MaxGuards : LoopReadMode(g)
    \/ \E g \in 1..MaxGuards, k \in RunPackets : LoopDecide(g, k, TRUE)
    \/ \E queued \in BOOLEAN : CaptureStop(queued)
    \/ CaptureAwait
    \/ \E g \in 1..MaxGuards : LoopExit(g)

SpecRun == InitRun /\ [][NextRun]_vars

\* every thread that can take a step which does not wait for a new packet
\* eventually takes one
FairRun ==
    \A g \in 1..MaxGuards :
        WF_vars(g \in DOMAIN guards /\ guards[g].handle # "open" /\ LoopRun(g))

SpecRunFair == SpecRun /\ FairRun

\* the same threads when a send can fail and a packet can fail to parse
NextSend ==
    \/ \E m \in {"Standard", "Solo", "Locked", "Disconnect"} : SetMode(m)
    \/ \E queued \in BOOLEAN : UiStop(queued)
    \/ UiStart
    \/ \E queued \in BOOLEAN : CtrlC(queued)
    \/ AbortGate
    \/ AwaitGate
    \/ \E g \in 1..MaxGuards : LoopRecv(g)
    \/ \E g \in 1..MaxGuards : LoopNoData(g)
    \/ \E g \in 1..MaxGuards : LoopReadMode(g)
    \/ \E g \in 1..MaxGuards, k \in SendPackets, ok \in BOOLEAN : LoopDecide(g, k, ok)
    \/ \E g \in 1..MaxGuards : LoopExit(g)
    \/ \E queued \in BOOLEAN : CaptureStop(queued)
    \/ CaptureAwait

SpecSend == InitRun /\ [][NextSend]_vars

TypeRun ==
    /\ packet_guard \in 0..MaxGuards
    /\ Len(guards) <= MaxGuards
    /\ ui.pc \in {"idle", "stop", "start", "shutdown", "exited"}

\* ------------------------------------------------------------------------
\* Properties of the gates (SpecGate)
\* ------------------------------------------------------------------------
\* a gate that tracks processes has just decided a packet
GateDecided == rx.gate \in {"guard", "cli"}

\* the packet just decided is a tracked UDP packet
TrackedUdp == GateDecided /\ rx.tracked /\ rx.pkt.transport = "udp"

\* C1: every packet a gate receives whose tracked bit is false is passed
\* (re-injected), under each policy and in every state of the Endpoint Index
\* and of the flow set, the empty flow set included.
C1_UntrackedPasses ==
    (GateDecided /\ ~rx.tracked) => rx.sent = 1

\* C2: under Solo, every tracked UDP packet whose payload size is not in
\* {12, 18, 63} or whose local port is not 6672 is dropped.
C2_SoloDrops ==
    ( /\ TrackedUdp
      /\ rx.mode = "Solo"
      /\ rx.pkt.len \notin HEARTBEAT_SIZES \/ 6672 \notin rx.local_ports )
    => rx.sent = 0

\* C3: under Solo, a tracked UDP packet to/from local port 6672 with payload
\* size 12, 18 or 63 is passed, re-injected on the handle it was received from
\* (PacketCapture, which tracks nothing, passes every heartbeat-sized packet
\* it can parse).
C3_SoloHeartbeatPasses ==
    ( \/ /\ TrackedUdp
         /\ rx.mode = "Solo"
         /\ 6672 \in rx.local_ports
         /\ rx.pkt.len \in {12, 18, 63}
      \/ /\ rx.gate = "core"
         /\ rx.pkt.net = "ipv4"
         /\ rx.pkt.len \in {12, 18, 63} )
    => (rx.sent = 1 /\ rx.sent_on = rx.handle)

\* PacketGuard in Solo has passed a tracked heartbeat on local port 6672
C3_Witness ==
    /\ rx.gate = "guard"
    /\ rx.mode = "Solo"
    /\ rx.tracked
    /\ rx.pkt.transport = "udp" /\ rx.pkt.len = 12 /\ rx.pkt.dport = 6672
    /\ rx.local_ports = {6672}
    /\ rx.sent = 1

\* C4: under Locked, every tracked UDP packet with local port 6672 and payload
\* size in {191, 207, 223, 239} is dropped.
C4_LockedDropsJoin ==
    ( /\ TrackedUdp
      /\ rx.mode = "Locked"
      /\ 6672 \in rx.local_ports
      /\ rx.pkt.len \in {191, 207, 223, 239} )
    => rx.sent = 0

\* PacketGuard in Locked has dropped a tracked join request on local port 6672
C4_Witness ==
    /\ rx.gate = "guard"
    /\ rx.mode = "Locked"
    /\ rx.tracked
    /\ rx.pkt.transport = "udp" /\ rx.pkt.len = 207
    /\ rx.local_ports = {6672}
    /\ rx.sent = 0 /\ rx.blocked = 1

\* C5: under Locked, every packet that is not a tracked UDP packet on local
\* port 6672 with payload size in {191, 207, 223, 239} passes (stated for the
\* decisions taken while the flow set is not empty; with an empty flow set
\* C1_UntrackedPasses already fails).
C5_LockedPassesRest ==
    ( /\ rx.gate = "guard"
      /\ rx.mode = "Locked"
      /\ gta_flows # {}
      /\ ~ ( /\ rx.tracked
             /\ rx.pkt.transport = "udp"
             /\ 6672 \in rx.local_ports
             /\ rx.pkt.len \in {191, 207, 223, 239} ) )
    => rx.sent = 1

\* C6: under Disconnect, every tracked packet, UDP or TCP and of any payload
\* size, is dropped.
C6_DisconnectDrops ==
    (GateDecided /\ rx.mode = "Disconnect" /\ rx.tracked) => rx.sent = 0

\* PacketGuard in Disconnect has dropped a tracked TCP segment
C6_Witness ==
    /\ rx.gate = "guard"
    /\ rx.mode = "Disconnect"
    /\ rx.tracked
    /\ rx.pkt.transport = "tcp" /\ rx.pkt.as_udp = -1
    /\ rx.sent = 0 /\ rx.blocked = 1

\* ------------------------------------------------------------------------
\* Properties of the ConnectionTracker (SpecIndex)
\* ------------------------------------------------------------------------
\* the registered (pid, port) and (pid, <<local, remote>>) pairs of a tracker
UdpPairs(t) == {<<p, q>> \in Pids \X UdpPorts : p \in DOMAIN t.udp_map /\ q \in t.udp_map[p]}
TcpPairs(t) ==
    {<<p, c>> \in Pids \X (TcpPorts \X TcpPorts) : p \in DOMAIN t.tcp_map /\ c \in t.tcp_map[p]}

\* only pid has UDP port q registered in tracker t
OnlyPidHasUdp(t, pid, q) ==
    /\ <<pid, q>> \in UdpPairs(t)
    /\ \A p \in Pids \ {pid} : <<p, q>> \notin UdpPairs(t)

\* only pid has the TCP port pair {a, b} registered in tracker t
OnlyPidHasTcp(t, pid, a, b) ==
    /\ <<pid, <<a, b>>>> \in TcpPairs(t) \/ <<pid, <<b, a>>>> \in TcpPairs(t)
    /\ \A p \in Pids \ {pid} :
          <<p, <<a, b>>>> \notin TcpPairs(t) /\ <<p, <<b, a>>>> \notin TcpPairs(t)

\* C7: immediately after remove_process(pid) returns, pid owns no UDP port and
\* no TCP port pair in the Index, and is_tracked_udp / is_tracked_tcp are false
\* for every endpoint that only pid had registered.
C7_RemoveProcessPurges ==
    last.op = "remove_process" =>
        /\ last.pid \notin DOMAIN tracker.udp_map
        /\ last.pid \notin DOMAIN tracker.tcp_map
        /\ \A q \in UdpPorts :
              OnlyPidHasUdp(pre, last.pid, q) => ~is_tracked_udp(tracker, q)
        /\ \A a \in TcpPorts, b \in TcpPorts :
              OnlyPidHasTcp(pre, last.pid, a, b) => ~is_tracked_tcp(tracker, a, b)

\* a tracked pid with a UDP port and a TCP connection has just been removed
C7_Witness ==
    /\ last.op = "remove_process"
    /\ is_tracked_udp(pre, 6672) /\ OnlyPidHasUdp(pre, last.pid, 6672)
    /\ is_tracked_tcp(pre, 50000, 443) /\ OnlyPidHasTcp(pre, last.pid, 50000, 443)
    /\ ~is_tracked_udp(tracker, 6672)
    /\ ~is_tracked_tcp(tracker, 50000, 443)

\* C8: is_tracked_tcp(a, b) = is_tracked_tcp(b, a) in every state of the Index,
\* and after add_tcp(pid, a, b) for a tracked pid is_tracked_tcp(b, a) is true.
C8_TcpSymmetry ==
    /\ \A a \in TcpPorts, b \in TcpPorts :
          is_tracked_tcp(tracker, a, b) = is_tracked_tcp(tracker, b, a)
    /\ ( /\ last.op = "add_tcp"
         /\ last.pid # 0 /\ last.a # 0 /\ last.b # 0
         /\ last.pid \in tracker.pid_set )
       => is_tracked_tcp(tracker, last.b, last.a)

\* add_tcp(pid, 50000, 443) was the last call, only that direction is stored,
\* and the reversed lookup answers true
C8_Witness ==
    /\ last = [op |-> "add_tcp", pid |-> 1234, a |-> 50000, b |-> 443]
    /\ 1234 \in tracker.pid_set
    /\ \A p \in Pids : <<p, <<443, 50000>>>> \notin TcpPairs(tracker)
    /\ is_tracked_tcp(tracker, 443, 50000)

\* C9: an add or remove request (UDP or TCP) with pid = 0 or local_port = 0
\* leaves the tracked pid set, the UDP map and the TCP map unchanged.
C9_ZeroGuard ==
    ( /\ last.op \in {"add_udp", "remove_udp", "add_tcp", "remove_tcp"}
      /\ last.pid = 0 \/ last.a = 0 )
    => tracker = pre

\* add_tcp with local_port = 0 was called for a tracked pid on an Index that
\* holds endpoints
C9_Witness ==
    /\ last.op = "add_tcp" /\ last.pid = 1234 /\ last.a = 0 /\ last.b = 443
    /\ 1234 \in tracker.pid_set
    /\ UdpPairs(tracker) # {}
    /\ tracker = pre

\* the step is remove_udp(p, q) directly after add_udp(p, q)
AddThenRemoveUdp ==
    /\ last.op = "add_udp"
    /\ last'.op = "remove_udp"
    /\ last'.pid = last.pid
    /\ last'.a = last.a

\* C10 as stated: add_udp(p, q); remove_udp(p, q) leaves the Index unchanged,
\* whatever the prior state (pre is the Index before the add_udp).
C10_Original == [][AddThenRemoveUdp => tracker' = pre]_vars

\* C10 amended: if (p, q) was not registered before, the sequence leaves the
\* pid set, the TCP map and the registered UDP endpoints unchanged (the UDP map
\* itself is unchanged when p already had an entry, otherwise an empty entry
\* for p remains); if (p, q) was registered, the sequence removes exactly it.
C10_AddRemoveUdp ==
    [][AddThenRemoveUdp =>
        /\ tracker'.pid_set = pre.pid_set
        /\ tracker'.tcp_map = pre.tcp_map
        /\ UdpPairs(tracker') = UdpPairs(pre) \ {<<last.pid, last.a>>}
        /\ <<last.pid, last.a>> \notin UdpPairs(pre) =>
              /\ UdpPairs(tracker') = UdpPairs(pre)
              /\ last.pid \in DOMAIN pre.udp_map => tracker'.udp_map = pre.udp_map
              /\ \A q \in UdpPorts : is_tracked_udp(tracker', q) = is_tracked_udp(pre, q)
      ]_vars

\* remove_udp(p, q) has just undone an add_udp(p, q) of a new endpoint of a
\* tracked pid that has another port registered
C10_Witness ==
    /\ last = [op |-> "remove_udp", pid |-> 1234, a |-> 9000, b |-> 0]
    /\ 1234 \in tracker.pid_set
    /\ <<1234, 9000>> \in UdpPairs(pre)
    /\ UdpPairs(tracker) = {<<1234, 6672>>}

\* ------------------------------------------------------------------------
\* Properties of the Endpoint Index as the gates of lobbyguard-cli use it
\* (SpecGate)
\* ------------------------------------------------------------------------
\* how often UDP port q is stored for pid (a DashSet holds it at most once, a
\* Vec as often as it was pushed)
UdpOccurrences(t, pid, q) ==
    IF pid \notin DOMAIN t.udp_map THEN 0
    ELSE IF program = "main"
         THEN Cardinality({i \in DOMAIN t.udp_map[pid] : t.udp_map[pid][i] = q})
         ELSE IF q \in t.udp_map[pid] THEN 1 ELSE 0

\* how often the TCP connection (local_port, remote_port) is stored for pid
TcpOccurrences(t, pid, local_port, remote_port) ==
    IF pid \notin DOMAIN t.tcp_map THEN 0
    ELSE IF program = "main"
         THEN Cardinality({i \in DOMAIN t.tcp_map[pid] :
                              t.tcp_map[pid][i] = <<remote_port, local_port>>})
         ELSE IF <<local_port, remote_port>> \in t.tcp_map[pid] THEN 1 ELSE 0

\* C11: adds are idempotent, a duplicate add is a no-op: whatever add events
\* the observer has handled, a (pid, port) and a (pid, local_port, remote_port)
\* occur at most once in the UDP map and in the TCP map.
C11_AddsIdempotent ==
    program \in {"cli", "main"} =>
        \A pid \in Pids :
            /\ \A q \in UdpPorts : UdpOccurrences(tracker, pid, q) <= 1
            /\ \A a \in TcpPorts, b \in TcpPorts : TcpOccurrences(tracker, pid, a, b) <= 1

\* C12: the UDP tracked bit computed for a packet is true iff some pid of the
\* tracked set has the packet's local port registered as a UDP endpoint.
C12_UdpTrackedBit ==
    (rx.gate \in {"cli", "main"} /\ rx.pkt.transport = "udp" /\ rx.pkt.net # "malformed") =>
        (rx.tracked <=>
            \E pid \in tracker.pid_set, q \in rx.local_ports :
                UdpOccurrences(tracker, pid, q) >= 1)

\* ------------------------------------------------------------------------
\* Packets no gate can classify (SpecGate)
\* ------------------------------------------------------------------------
\* a gate has received a packet in the step just taken
AnyGateDecided == rx.gate \in {"guard", "cli", "main", "core"}

\* C13: if parsing a diverted packet's IP headers fails, the gate passes the
\* packet through (re-injects it); the packet is not dropped.
C13_ParseErrorPasses ==
    (AnyGateDecided /\ rx.pkt.net = "malformed") => rx.sent = 1

\* C14: a diverted packet whose transport is neither UDP nor TCP (ICMP under
\* the filter `ip`) is passed through under every policy.
C14_OtherTransportPasses ==
    ( /\ AnyGateDecided
      /\ rx.pkt.net \in {"ipv4", "ipv6"}
      /\ rx.pkt.transport \notin {"udp", "tcp"} )
    => rx.sent = 1

\* C15: on the endpoint-index path (process_packets) the local port of a UDP
\* packet is the port of the side whose address is not globally routable; if
\* both source and destination are global, or if neither is, the local port is
\* 0 and the packet is untracked.
C15_LocalPort ==
    (rx.gate = "cli" /\ rx.pkt.transport = "udp" /\ rx.pkt.net # "malformed") =>
        LET src_global == is_global(SrcAddr(rx.pkt))
            dst_global == is_global(DstAddr(rx.pkt))
        IN /\ (~src_global /\ dst_global) => rx.local_ports = {rx.pkt.sport}
           /\ (src_global /\ ~dst_global) => rx.local_ports = {rx.pkt.dport}
           /\ (src_global = dst_global) => (rx.local_ports = {0} /\ ~rx.tracked)

\* ------------------------------------------------------------------------
\* Properties of the supervisor and of the receive loops (SpecRun)
\* ------------------------------------------------------------------------
\* the step is one of the UI thread inside set_mode
UiStep == ui' # ui

\* set_mode is changing the mode between Solo and Locked while the gate runs
SoloLockedChange ==
    /\ ui.pc # "idle"
    /\ ui.from \in {"Solo", "Locked"}
    /\ session_mode \in {"Solo", "Locked"}

\* C16: a mode change between Solo and Locked while the gate is running is
\* only a write of the Policy cell: the gate stays active, no divert handle is
\* shut down and no new gate (handle and receive loop) is created.
C16_ModeChangeIsWrite ==
    [][(SoloLockedChange /\ UiStep) =>
          /\ is_active' = is_active
          /\ Len(guards') = Len(guards)
          /\ \A g \in DOMAIN guards : guards'[g].handle = guards[g].handle
      ]_vars

\* C17: when a mode change has torn down a divert handle and started a new
\* gate, no packet received on the torn-down handle is processed after the new
\* gate has been started.
C17_NoOldPackets ==
    (rx.gate = "guard" /\ rx.handle_state # "open") => rx.guard = rx.started

\* C18: after any sequence of mode changes that ends with selecting Standard,
\* the divert handle of every gate started before is shut down.
C18_StandardIsOff ==
    (program = "gui" /\ session_mode = "Standard" /\ ui.pc = "idle") =>
        \A g \in DOMAIN guards : guards[g].handle # "open"

\* C19: a write of the Policy cell takes effect no later than the next packet
\* decision: the policy a thread uses for a packet is the value the Policy cell
\* holds when the thread reads it, after the packet was received, and the
\* packet is decided under that policy.
C19_PolicyTakesEffect ==
    [][\A g \in DOMAIN guards :
          /\ (guards[g].pc = "read" /\ guards'[g].pc = "decide")
                => guards'[g].mode = filter_mode
          /\ (program = "gui" /\ guards[g].pc = "decide" /\ guards'[g].pc = "recv")
                => /\ rx'.mode = guards[g].mode
                   /\ rx'.sent = IF PacketGuard_decide(guards[g].mode, gta_flows,
                                                       rx'.pkt) = "pass"
                                 THEN 1 ELSE 0
      ]_vars

\* a gate created under Disconnect (handle filter `ip`) has decided a packet
\* under Solo, the policy written after the gate was created
C19_Witness ==
    /\ rx.gate = "guard"
    /\ rx.handle = IpFilter
    /\ rx.mode = "Solo"
    /\ filter_mode = "Solo"

\* C20: once the shutdown handle has been invoked, the receive loop observes
\* NoData, breaks out of the loop and processes no further packet: the loop
\* eventually terminates, and a loop that has ended decides nothing any more.
C20_ShutdownEndsLoop ==
    /\ \A g \in 1..MaxGuards :
          (g \in DOMAIN guards /\ guards[g].handle # "open")
              ~> (g \in DOMAIN guards /\ guards[g].pc = "done")
    /\ [][\A g \in DOMAIN guards :
             guards[g].pc \in {"exit", "done"} =>
                /\ guards'[g].pc \in {"exit", "done"}
                /\ rx'.gate # "none" => rx'.guard # g
         ]_vars

\* the loop of process_packets has ended after Ctrl-C, having drained its
\* handle
C20_Witness ==
    /\ program = "cli"
    /\ guards[1].handle = "closed"
    /\ guards[1].pc = "done"


\* ------------------------------------------------------------------------
\* Shutdown (SpecRun), sends and errors (SpecSend) of the receive loops
\* ------------------------------------------------------------------------
\* C21: on Ctrl-C the supervisor invokes the shutdown handle and then waits
\* until the receive loop has observed the shutdown and ended; the gate task
\* is never aborted, and main never returns, while the loop is still running.
C21_ExitAfterLoopEnds ==
    (program # "gui" /\ ui.pc = "exited") => guards[1].pc = "done"


\* C22: every packet a gate receives gets one decision and is re-injected at
\* most once: a pass issues exactly one send, on the handle the packet was
\* received on, a drop issues none, and a failed send is logged and not
\* retried (the loop goes back to recv or ends).
C22_OneSendLoggedFailure ==
    rx.gate \in {"guard", "cli"} =>
        /\ rx.sent \in {0, 1}
        /\ rx.sent = 1 => rx.sent_on = rx.handle
        /\ rx.sent = 0 => (rx.sent_on = "none" /\ ~rx.send_failed)
        /\ guards[rx.guard].pc \in {"recv", "done"}
        /\ rx.send_failed => rx.logged

\* C23: no error aborts the packet path: a receive loop ends only when its
\* recv fails with the shutdown sentinel (NoData); after a failed send or a
\* packet that does not parse it goes back to recv.
C23_OnlySentinelEndsLoop ==
    [][\A g \in DOMAIN guards :
          (guards[g].pc \notin {"exit", "done"} /\ guards'[g].pc \in {"exit", "done"})
             => (guards[g].pc = "recv" /\ guards[g].handle = "closed")
      ]_vars


\* ------------------------------------------------------------------------
\* The Process/Socket Observer of lobbyguard-cli (SpecGate)
\* ------------------------------------------------------------------------
\* the process ids that have a UDP port or a TCP pair registered
Registered(t) ==
    {pid \in DOMAIN t.udp_map : t.udp_map[pid] # {}}
        \cup {pid \in DOMAIN t.tcp_map : t.tcp_map[pid] # {}}

\* the observer is between two events: no remove_process is under way
BetweenEvents == program = "cli" /\ observer.pc \notin {"remove_tcp", "remove_udp"}

C25_RemoveProcessOrder ==
    (program = "cli" /\ observer.pc \in {"remove_tcp", "remove_udp"}) =>
        Registered(tracker) \subseteq tracker.pid_set


\* the UDP port, the TCP pair, is registered for pid in the tracker t
HasUdp(t, pid, port) == pid \in DOMAIN t.udp_map /\ port \in t.udp_map[pid]
HasTcp(t, pid, local_port, remote_port) ==
    pid \in DOMAIN t.tcp_map /\ <<local_port, remote_port>> \in t.tcp_map[pid]

\* C26: a socket-modified event is applied as delete(previous) followed by a
\* conditional add(target): the previous endpoint is removed whenever its owner
\* is tracked, also when the owner is unchanged and only the ports changed, and
\* the target endpoint is registered afterwards iff its owner is tracked and
\* its fields are non-zero, whether or not the previous owner was tracked.
C26_ModifiedIsDeleteThenAdd ==
    /\ last.op = "udp_update" =>
          /\ contains_process(pre, last.prev_pid) =>
                ~HasUdp(tracker, last.prev_pid, last.prev_a)
          /\ HasUdp(tracker, last.pid, last.a)
                <=> (contains_process(pre, last.pid) /\ last.pid # 0 /\ last.a # 0)
    /\ last.op = "tcp_update" =>
          /\ contains_process(pre, last.prev_pid) =>
                ~HasTcp(tracker, last.prev_pid, last.prev_a, last.prev_b)
          /\ HasTcp(tracker, last.pid, last.a, last.b)
                <=> (/\ contains_process(pre, last.pid)
                     /\ last.pid # 0 /\ last.a # 0 /\ last.b # 0)


\* ------------------------------------------------------------------------
\* Startup of the observers (SpecGate)
\* ------------------------------------------------------------------------
\* the observer has not finished its startup snapshot
Startup == observer.pc \in {"processes", "tcp", "udp", "scan"}

\* C27: the startup snapshot (processes, then TCP connections, then UDP
\* endpoints) is inserted before any live event is consumed and before the
\* first decision of the gate: while the snapshot is not finished, no gate has
\* just decided a packet and no flow or socket-modified event has just been
\* consumed.
C27_SnapshotBeforeLive ==
    Startup =>
        /\ rx.gate = "none"
        /\ last.op \notin {"FlowEstablished", "FlowDeleted", "udp_update", "tcp_update"}

\* C28: if the process query (step 1) fails, startup fails; if the TCP or the
\* UDP query (step 2 or 3) fails, startup goes on with partial state.
C28_StartupFailure ==
    /\ "processes" \in observer.failed => observer.pc = "failed"
    /\ (observer.failed # {} /\ "processes" \notin observer.failed)
          => observer.pc # "failed"


\* ------------------------------------------------------------------------
\* The flow set (SpecGate)
\* ------------------------------------------------------------------------
\* C29: FlowEstablished inserts the normalised tuple into the flow set iff the
\* process id of the event is tracked at that moment (a key that is not
\* inserted is in the set afterwards only if it was there before), FlowDeleted
\* removes the tuple unconditionally, and every key of the flow set has
\* normalised addresses.
C29_FlowSet ==
    /\ \A key \in gta_flows :
          /\ normalize_ip(key.local_addr) = key.local_addr
          /\ normalize_ip(key.remote_addr) = key.remote_addr
    /\ last.op = "FlowEstablished" =>
          /\ last.tracked => last.key \in gta_flows
          /\ ~last.tracked => (last.key \in gta_flows <=> last.had)
    /\ last.op = "FlowDeleted" => last.key \notin gta_flows

\* a flow of a tracked process reported with an IPv4-mapped local address has
\* just been inserted under its IPv4 key
C29_Witness ==
    /\ last.op = "FlowEstablished"
    /\ last.mapped
    /\ last.tracked
    /\ ~last.had
    /\ last.key \in gta_flows
    /\ last.key.local_addr[1] = "v4"

\* the packet k with source and destination swapped
SwapDirection(k) ==
    [k EXCEPT !.src = k.dst, !.dst = k.src, !.sport = k.dport, !.dport = k.sport]

\* C30: the tracked bit the flow-set gate computes for a packet equals the one
\* it computes for the packet with source and destination swapped.
C30_DirectionSymmetry ==
    program = "guard" =>
        \A k \in Packets :
            GuardTracked(gta_flows, k) = GuardTracked(gta_flows, SwapDirection(k))

\* the gate has just found an inbound packet tracked by the key of the reverse
\* direction only
C30_Witness ==
    /\ rx.gate = "guard"
    /\ rx.tracked
    /\ GuardKey(rx.pkt) \notin gta_flows
    /\ GuardRevKey(rx.pkt) \in gta_flows
    /\ GuardTracked(gta_flows, SwapDirection(rx.pkt))


\* ------------------------------------------------------------------------
\* normalize_ip on addresses written out (lobbyguard-common/src/flow.rs)
\* An IpAddr is [family, words]: family "v4" with four octets, or "v6" with
\* eight 16-bit segments.
\* ------------------------------------------------------------------------
IpV4(o1, o2, o3, o4) == [family |-> "v4", words |-> <<o1, o2, o3, o4>>]
IpV6(segments) == [family |-> "v6", words |-> segments]

\* Ipv6Addr::to_ipv4, which also converts the IPv4-compatible ::a.b.c.d
to_ipv4(v6) ==
    LET s == v6.words
    IN IF (\A i \in 1..5 : s[i] = 0) /\ s[6] \in {0, 65535}
       THEN <<TRUE, IpV4(s[7] \div 256, s[7] % 256, s[8] \div 256, s[8] % 256)>>
       ELSE <<FALSE, v6>>

\* Ipv6Addr::to_ipv4_mapped: Some(a.b.c.d) for ::ffff:a.b.c.d, else None;
\* <<is_some, value>>
to_ipv4_mapped(v6) ==
    LET s == v6.words
    IN IF (\A i \in 1..5 : s[i] = 0) /\ s[6] = 65535
       THEN <<TRUE, IpV4(s[7] \div 256, s[7] % 256, s[8] \div 256, s[8] % 256)>>
       ELSE <<FALSE, v6>>

\* flow.rs normalize_ip (lib.rs has the same function)
flow_normalize_ip(ip) ==
    IF ip.family = "v6"
    THEN IF to_ipv4_mapped(ip)[1] THEN to_ipv4_mapped(ip)[2] ELSE ip
    ELSE ip

\* the addresses used as inputs: IPv4 addresses, and IPv6 addresses whose
\* first five segments are zero or not, whose sixth is 0, 0xffff or 0xfffe
NormV4 ==
    {IpV4(o1, o2, o3, o4) : o1 \in {10, 192}, o2 \in {0, 168}, o3 \in {0, 1}, o4 \in {1, 255}}
NormV6 ==
    {IpV6(<<s1, 0, 0, 0, s5, s6, s7, s8>>) :
        s1 \in {0, 8193}, s5 \in {0, 1}, s6 \in {0, 65535, 65534},
        s7 \in {0, 49320}, s8 \in {1, 257}}
NormInputs == NormV4 \cup NormV6

\* normalize_ip is called on the address ip
NormalizeIp(ip) ==
    /\ program = "flow"
    /\ last' = [op |-> "normalize_ip", pid |-> 0, a |-> 0, b |-> 0,
                ip |-> ip, out |-> flow_normalize_ip(ip), first |-> ip]
    /\ UNCHANGED <<tracker, pre, gateVars>>

\* normalize_ip is called on the result of the last call
NormalizeAgain ==
    /\ program = "flow"
    /\ last.op = "normalize_ip"
    /\ last' = [op |-> "normalize_again", pid |-> 0, a |-> 0, b |-> 0,
                ip |-> last.out, out |-> flow_normalize_ip(last.out), first |-> last.ip]
    /\ UNCHANGED <<tracker, pre, gateVars>>

InitNorm ==
    /\ InitCommon
    /\ program = "flow"
    /\ capture_tcp = FALSE
    /\ observer = ObserverLive

NextNorm ==
    \/ \E ip \in NormInputs : NormalizeIp(ip)
    \/ NormalizeAgain

SpecNorm == InitNorm /\ [][NextNorm]_vars

\* ip is ::ffff:a.b.c.d
IsIpv4Mapped(ip) ==
    /\ ip.family = "v6"
    /\ \A i \in 1..5 : ip.words[i] = 0
    /\ ip.words[6] = 65535

\* the four octets of the last 32 bits of an IPv6 address, as an IPv4 address
EmbeddedIpv4(ip) ==
    IpV4(ip.words[7] \div 256, ip.words[7] % 256, ip.words[8] \div 256, ip.words[8] % 256)

\* C31: normalize_ip maps every IPv4-mapped IPv6 address to the IPv4 address
\* it embeds and every other address (IPv4, IPv6 that is not mapped) to
\* itself; normalising a normalised address changes nothing.
C31_Normalise ==
    last.op \in {"normalize_ip", "normalize_again"} =>
        /\ IsIpv4Mapped(last.ip) => last.out = EmbeddedIpv4(last.ip)
        /\ ~IsIpv4Mapped(last.ip) => last.out = last.ip
        /\ flow_normalize_ip(last.out) = last.out
        /\ last.op = "normalize_again" => last.out = last.ip

\* ::ffff:192.168.1.1 has been normalised to 192.168.1.1 and normalised again
C31_Witness ==
    /\ last.op = "normalize_again"
    /\ IsIpv4Mapped(last.first)
    /\ last.first.words[7] = 49320
    /\ last.out = IpV4(192, 168, 1, 1)


\* ------------------------------------------------------------------------
\* FlowMonitor against the platform: the platform emits process and flow
\* events on three streams (process creation, process deletion, flow layer),
\* the two tasks of FlowMonitor::start consume them, the GUI worker consumes
\* the MonitorEvents they send, and the gate reads the flow set
\* ------------------------------------------------------------------------
\* events a stream holds that its consumer has not received yet
MaxPending == 1
\* flow-established events the platform emits in one run
MaxEstablished == 2

\* the processes of the platform: process id and executable name
WorldProcs == {[pid |-> 1234, name |-> "GTA5_Enhanced.exe"],
               [pid |-> 5678, name |-> "notepad.exe"]}

\* the flows of the platform: a socket of a process, lan:6672 to wan:6672, its
\* local address reported as IPv4 or as IPv4-mapped IPv6
WorldFlows ==
    {[la |-> la, lp |-> 6672, rp |-> 6672, pid |-> p.pid] :
        la \in FlowAddresses, p \in WorldProcs}

\* the key the flow task builds for a flow
WorldKey(f) == FlowKey(normalize_ip(f.la), f.lp, normalize_ip(<<"v4", "wan">>), f.rp)

\* a process starts: the platform queues an __InstanceCreationEvent
WorldProcessCreated(p) ==
    /\ program = "guard"
    /\ p.pid \notin world.procs
    /\ Len(world.created) < MaxPending
    /\ world' = [world EXCEPT !.procs = @ \cup {p.pid}, !.created = Append(@, p)]
    /\ rx' = NoPacket
    /\ last' = NoCall
    /\ UNCHANGED <<tracker, pre, program, capture_tcp, lookup, sink, observer, supVars, gta_flows, gta_pids, filter_mode, divert>>

\* a process that has closed its sockets exits: the platform queues an
\* __InstanceDeletionEvent
WorldProcessDeleted(p) ==
    /\ program = "guard"
    /\ p.pid \in world.procs
    /\ \A f \in world.flows : f.pid # p.pid
    /\ Len(world.deleted) < MaxPending
    /\ world' = [world EXCEPT !.procs = @ \ {p.pid}, !.deleted = Append(@, p)]
    /\ rx' = NoPacket
    /\ last' = NoCall
    /\ UNCHANGED <<tracker, pre, program, capture_tcp, lookup, sink, observer, supVars, gta_flows, gta_pids, filter_mode, divert>>

\* a live process opens a flow: the flow layer queues FlowEstablished
WorldFlowEstablished(f) ==
    /\ program = "guard"
    /\ f.pid \in world.procs
    /\ f \notin world.flows
    /\ Cardinality(world.flows) < MaxFlows
    /\ world.established < MaxEstablished
    /\ Len(world.flow) < MaxPending
    /\ world' = [world EXCEPT !.flows = @ \cup {f},
                              !.established = @ + 1,
                              !.flow = Append(@, [event |-> "FlowEstablished", flow |-> f])]
    /\ rx' = NoPacket
    /\ last' = NoCall
    /\ UNCHANGED <<tracker, pre, program, capture_tcp, lookup, sink, observer, supVars, gta_flows, gta_pids, filter_mode, divert>>

\* a flow ends: the flow layer queues FlowDeleted
WorldFlowDeleted(f) ==
    /\ program = "guard"
    /\ f \in world.flows
    /\ Len(world.flow) < MaxPending
    /\ world' = [world EXCEPT !.flows = @ \ {f},
                              !.flow = Append(@, [event |-> "FlowDeleted", flow |-> f])]
    /\ rx' = NoPacket
    /\ last' = NoCall
    /\ UNCHANGED <<tracker, pre, program, capture_tcp, lookup, sink, observer, supVars, gta_flows, gta_pids, filter_mode, divert>>

\* monitor_processes_blocking: creation_iter.next() is Some(Ok(event))
CreationEvent ==
    /\ program = "guard"
    /\ observer.pc = "live"
    /\ world.created # <<>>
    /\ Len(sink.monitor_rx) < MaxChannel
    /\ LET p == Head(world.created)
       IN /\ gta_pids' = IF matches_executable(p.name) THEN gta_pids \cup {p.pid} ELSE gta_pids
          /\ sink' = IF matches_executable(p.name)
                     THEN [sink EXCEPT !.monitor_rx = Append(@, "ProcessFound")]
                     ELSE sink
    /\ world' = [world EXCEPT !.created = Tail(@)]
    /\ rx' = NoPacket
    /\ last' = NoCall
    /\ UNCHANGED <<tracker, pre, program, capture_tcp, lookup, observer, supVars, gta_flows, filter_mode, divert>>

\* monitor_processes_blocking: deletion_iter.next() is Some(Ok(event))
DeletionEvent ==
    /\ program = "guard"
    /\ observer.pc = "live"
    /\ world.deleted # <<>>
    /\ Len(sink.monitor_rx) < MaxChannel
    /\ LET p == Head(world.deleted)
       IN /\ gta_pids' = IF matches_executable(p.name) THEN gta_pids \ {p.pid} ELSE gta_pids
          /\ sink' = IF matches_executable(p.name)
                     THEN [sink EXCEPT !.monitor_rx = Append(@, "ProcessLost")]
                     ELSE sink
    /\ world' = [world EXCEPT !.deleted = Tail(@)]
    /\ rx' = NoPacket
    /\ last' = NoCall
    /\ UNCHANGED <<tracker, pre, program, capture_tcp, lookup, observer, supVars, gta_flows, filter_mode, divert>>

\* the flow task: flow_divert.recv() hands out the next event of the flow layer
FlowLayerEvent ==
    /\ program = "guard"
    /\ world.flow # <<>>
    /\ Len(sink.monitor_rx) < MaxChannel
    /\ LET e == Head(world.flow)
           key == WorldKey(e.flow)
       IN IF e.event = "FlowEstablished"
          THEN /\ gta_flows' = flow_established(gta_flows, gta_pids, key, e.flow.pid)
               /\ sink' = IF e.flow.pid \in gta_pids
                          THEN [sink EXCEPT !.monitor_rx = Append(@, "FlowEstablished")]
                          ELSE sink
          ELSE /\ gta_flows' = flow_deleted(gta_flows, key)
               /\ sink' = IF key \in gta_flows
                          THEN [sink EXCEPT !.monitor_rx = Append(@, "FlowDeleted")]
                          ELSE sink
    /\ LET e == Head(world.flow)
           key == WorldKey(e.flow)
       IN world' = [world EXCEPT
                      !.flow = Tail(@),
                      !.inserted =
                          IF e.event = "FlowDeleted"
                          THEN {i \in @ : i.key # key}
                          ELSE IF e.flow.pid \in gta_pids
                          THEN @ \cup {[key |-> key, pid |-> e.flow.pid]}
                          ELSE @]
    /\ rx' = NoPacket
    /\ last' = NoCall
    /\ UNCHANGED <<tracker, pre, program, capture_tcp, lookup, observer, supVars, gta_pids, filter_mode, divert>>

\* usize::saturating_sub(1)
saturating_sub_1(n) == IF n = 0 THEN 0 ELSE n - 1

\* app_logic, the worker on WorkerEvent::Monitor: the counters of the GUI
WorkerMonitor ==
    /\ program = "guard"
    /\ sink.monitor_rx # <<>>
    /\ LET ev == Head(sink.monitor_rx)
       IN sink' = [sink EXCEPT
                     !.monitor_rx = Tail(@),
                     !.flow_count = CASE ev = "FlowEstablished" -> @ + 1
                                      [] ev = "FlowDeleted"     -> saturating_sub_1(@)
                                      [] OTHER                  -> @,
                     !.process_count = CASE ev = "ProcessFound" -> @ + 1
                                         [] ev = "ProcessLost"  -> saturating_sub_1(@)
                                         [] OTHER               -> @]
    /\ rx' = NoPacket
    /\ last' = NoCall
    /\ UNCHANGED <<tracker, pre, program, capture_tcp, lookup, world, observer, supVars, gta_flows, gta_pids, filter_mode, divert>>

\* the packet the gate receives: a heartbeat lan:6672 -> wan:6672
EventPackets == {k \in RunPackets : k.len = 12}

\* the FlowMonitor has started, its initial scan found no process, the gate
\* has opened its handle
InitEvents ==
    /\ InitSupervisor
    /\ program = "guard"
    /\ capture_tcp = FALSE
    /\ world = NoWorld
    /\ lookup = NoLookup
    /\ sink = [NoSink EXCEPT !.event_tx = TRUE]
    /\ observer = ObserverLive
    /\ tracker = ConnectionTracker_new
    /\ last = NoCall
    /\ pre = ConnectionTracker_new
    /\ gta_flows = {}
    /\ gta_pids = {}
    /\ filter_mode = FilterMode_default
    /\ divert = to_divert_filter(FilterMode_default)
    /\ rx = NoPacket

NextEvents ==
    \/ \E p \in WorldProcs : WorldProcessCreated(p)
    \/ \E p \in WorldProcs : WorldProcessDeleted(p)
    \/ \E f \in WorldFlows : WorldFlowEstablished(f)
    \/ \E f \in WorldFlows : WorldFlowDeleted(f)
    \/ CreationEvent
    \/ DeletionEvent
    \/ FlowLayerEvent
    \/ WorkerMonitor
    \/ \E k \in EventPackets : GuardRecv(k)

SpecEvents == InitEvents /\ [][NextEvents]_vars

\* no stream holds an event that has not been applied
Quiescent ==
    /\ world.created = <<>>
    /\ world.deleted = <<>>
    /\ world.flow = <<>>

\* the live processes whose executable matches
LiveMatching == {p.pid : p \in {q \in WorldProcs : q.pid \in world.procs /\ matches_executable(q.name)}}

\* the keys of the live flows of the live matching processes
LiveKeys == {WorldKey(f) : f \in {g \in world.flows : g.pid \in LiveMatching}}

\* C32: once every event the platform has emitted is applied, a gate decision
\* uses the tracked bit computed from the live matching processes and their
\* live flows, whatever the order in which the streams delivered the events.
C32_EventualConsistency ==
    (Quiescent /\ rx.gate = "guard") => rx.tracked = GuardTracked(LiveKeys, rx.pkt)


\* ------------------------------------------------------------------------
\* lobbyguard-cli with --pcap: the receive loop with its archive tap
\* ------------------------------------------------------------------------
\* the packets the loop receives: outbound IPv4 packets of every transport,
\* and the packets whose headers do not parse
ArchivePackets ==
    {k \in Packets : k.net # "ipv6" /\ k.src = "lan" /\ k.dst = "wan"}

\* the CLI after its startup: the observer is live; the archive file was
\* opened (pcap_writer is Some) or was not asked for or could not be created
InitArchive ==
    /\ InitSupervisor
    /\ program \in {"cli", "main"}
    /\ capture_tcp \in BOOLEAN
    /\ world = NoWorld
    /\ lookup = NoLookup
    /\ sink \in {[NoSink EXCEPT !.pcap_writer = w] : w \in BOOLEAN}
    /\ observer = ObserverLive
    /\ tracker = ConnectionTracker_new
    /\ last = NoCall
    /\ pre = ConnectionTracker_new
    /\ gta_flows = {}
    /\ gta_pids = {}
    /\ filter_mode = FilterMode_default
    /\ divert = "none"
    /\ rx = NoPacket

NextArchive ==
    \/ \E pid \in Pids \ {0}, name \in ProcNames : WmiProcessCreated(pid, name)
    \/ \E pid \in Pids \ {0}, lp \in {6672, 9000} : WmiUdpCreated(pid, lp)
    \/ \E pid \in Pids \ {0} : WmiTcpCreated(pid, 50000, 443)
    \/ \E k \in ArchivePackets : ProcessPackets(k)
    \/ \E pid \in Pids \ {0}, name \in ProcNames : MainProcessCreated(pid, name)
    \/ \E pid \in Pids \ {0}, lp \in {6672, 9000} : MainUdpCreated(pid, lp)
    \/ \E pid \in Pids \ {0} : MainTcpCreated(pid, 50000, 443)
    \/ \E k \in ArchivePackets : MainRecv(k)

SpecArchive == InitArchive /\ [][NextArchive]_vars

\* C33: with the archive tap enabled the frame of a received packet is
\* handed to the archive writer exactly when the packet's tracked bit is
\* true, whether the packet is passed or dropped; with no writer nothing is
\* written.
C33_ArchiveIffTracked ==
    rx.gate \in {"cli", "main"} =>
        /\ sink.pcap_writer => (rx.archive # "none" <=> rx.tracked)
        /\ ~sink.pcap_writer => rx.archive = "none"

\* a tracked packet that the gate dropped has been written to the archive
C33_Witness ==
    /\ rx.gate \in {"cli", "main"}
    /\ sink.pcap_writer
    /\ rx.tracked
    /\ rx.sent = 0
    /\ rx.archive = "written"

\* C34: after a write to the archive has failed, no write is attempted for
\* any later packet of the session.
C34_ArchiveDisabledAfterFailure ==
    (rx.gate \in {"cli", "main"} /\ rx.failed_before) => rx.archive = "none"


\* ------------------------------------------------------------------------
\* PacketGuard and its event channel: the gate sends GuardEvent::PacketBlocked,
\* the GUI worker counts them
\* ------------------------------------------------------------------------
\* a worker that does not count the event
on_packet_blocked_ignored(n) == n

\* app_logic, WorkerEvent::Guard(PacketBlocked): state.blocked_count += 1
on_packet_blocked(n) == n + 1

\* app_logic, the worker on WorkerEvent::Guard
WorkerGuard ==
    /\ program = "guard"
    /\ sink.guard_open
    /\ sink.guard_rx # <<>>
    /\ sink.blocked_count < MaxBlocked
    /\ sink' = [sink EXCEPT !.guard_rx = Tail(@),
                            !.blocked_count = on_packet_blocked(@)]
    /\ rx' = NoPacket
    /\ last' = NoCall
    /\ UNCHANGED <<tracker, pre, program, capture_tcp, lookup, world, observer, supVars, gta_flows, gta_pids, filter_mode, divert>>

\* the receiver of the guard channel is dropped while the gate still runs:
\* the channel is closed and what it held is gone
ReceiverDropped ==
    /\ program = "guard"
    /\ sink.guard_open
    /\ sink' = [sink EXCEPT !.guard_open = FALSE, !.guard_rx = <<>>]
    /\ rx' = NoPacket
    /\ last' = NoCall
    /\ UNCHANGED <<tracker, pre, program, capture_tcp, lookup, world, observer, supVars, gta_flows, gta_pids, filter_mode, divert>>

\* a gate that was given the sender of a guard channel, unbounded as the GUI
\* creates it or bounded, and has opened its handle
InitSink ==
    /\ InitSupervisor
    /\ program = "guard"
    /\ capture_tcp = FALSE
    /\ world = NoWorld
    /\ lookup = NoLookup
    /\ sink \in {[NoSink EXCEPT !.event_tx = TRUE, !.guard_cap = c] : c \in {0, ChannelCap}}
    /\ observer = ObserverLive
    /\ tracker = ConnectionTracker_new
    /\ last = NoCall
    /\ pre = ConnectionTracker_new
    /\ gta_flows = {}
    /\ gta_pids = {}
    /\ filter_mode = FilterMode_default
    /\ divert = to_divert_filter(FilterMode_default)
    /\ rx = NoPacket

NextSink ==
    \/ \E m \in {"Solo", "Locked", "Disconnect"} : ConfigWrite(m)
    \/ \E k \in RunPackets : GuardRecv(k)
    \/ WorkerGuard
    \/ ReceiverDropped

SpecSink == InitSink /\ [][NextSink]_vars

\* C35: the gate never waits for the event channel: when the channel is full
\* or closed the iteration that drops a packet completes, the event is
\* discarded and the channel is left as it was.
C35_NeverBlocksOnSink ==
    [][(rx'.gate = "guard" /\ rx'.sent = 0 /\ try_send(sink) # "sent")
          => (rx'.notify \in {"full", "closed"} /\ sink' = sink)]_vars

\* the gate has dropped a packet while its bounded event channel was full
C35_Witness ==
    /\ rx.gate = "guard"
    /\ rx.sent = 0
    /\ rx.notify = "full"
    /\ Len(sink.guard_rx) = ChannelCap

\* the events sent and not yet counted, and the events counted
GuardEvents(s) == Len(s.guard_rx) + s.blocked_count

\* C39: with the unbounded channel of the GUI and its receiver alive, an
\* iteration that drops a packet adds exactly one PacketBlocked event, an
\* iteration that passes adds none, and the worker counts each event once: the
\* events in the channel plus blocked_count grow by one with every drop and
\* not otherwise, so blocked_count is the number of drops once the channel is
\* empty.
C39_BlockedCount ==
    [][(sink.guard_cap = 0 /\ sink'.guard_open)
          => GuardEvents(sink') - GuardEvents(sink)
                = IF rx'.gate = "guard" /\ rx'.sent = 0 THEN 1 ELSE 0]_vars

\* the gate has dropped packets, the worker has drained the unbounded channel
\* and counted two blocked packets
C39_Witness ==
    /\ sink.guard_cap = 0
    /\ sink.guard_open
    /\ sink.guard_rx = <<>>
    /\ sink.blocked_count = 2


\* every gate thread whose handle was shut down has run to its end, the
\* clearing of the slot included, and the UI thread is outside set_mode
CleanupFinished ==
    /\ ui.pc = "idle"
    /\ \A g \in DOMAIN guards : guards[g].handle # "open" => guards[g].pc = "done"

\* C36: in the GUI, once every gate thread that was shut down has finished
\* its cleanup, is_active is true exactly when the packet_guard slot holds a
\* gate, and that gate is the only one whose receive loop is running: a
\* terminating old gate thread has not cleared the slot of a newer gate.
C36_SupervisorConsistency ==
    (program = "gui" /\ CleanupFinished) =>
        /\ is_active <=> packet_guard # 0
        /\ \A g \in DOMAIN guards : guards[g].pc # "done" <=> g = packet_guard


\* ------------------------------------------------------------------------
\* ConnectionTracker: a lookup on the gate's thread while the observer's
\* thread writes.  pid_set.iter() walks the set as it is when each element is
\* reached; every visit of an element and every write is one step.
\* ------------------------------------------------------------------------
LookupPids == {1234, 5678}

\* the answer of the lookup on tracker t taken in one step
AtomicLookup(t, kind, a, b) ==
    IF kind = "udp" THEN is_tracked_udp(t, a) ELSE is_tracked_tcp(t, a, b)

\* the closure given to any(): the view of the map entry of pid
LookupHit(t, kind, a, b, pid) ==
    IF kind = "udp"
    THEN pid \in DOMAIN t.udp_map /\ a \in t.udp_map[pid]
    ELSE /\ pid \in DOMAIN t.tcp_map
         /\ <<a, b>> \in t.tcp_map[pid] \/ <<b, a>> \in t.tcp_map[pid]

\* is_tracked_udp / is_tracked_tcp is called (the lookup before it, if any,
\* has returned): the zero guard, then the iterator over pid_set is created
LookupStart(kind, a, b) ==
    /\ program = "index"
    /\ lookup.pc \in {"idle", "done"}
    /\ lookup' = [pc |-> IF a = 0 \/ (kind = "tcp" /\ b = 0) THEN "done" ELSE "iter",
                  kind |-> kind, a |-> a, b |-> b, visited |-> {}, result |-> FALSE,
                  seen |-> {AtomicLookup(tracker, kind, a, b)}]
    /\ last' = NoCall
    /\ pre' = ConnectionTracker_new
    /\ UNCHANGED <<tracker, program, capture_tcp, world, sink, observer, supVars, gta_flows, gta_pids, filter_mode, divert, rx>>

\* the iterator yields pid, an element of pid_set it has not passed: any()
\* ends with true if the closure answers true
LookupVisit(pid) ==
    /\ program = "index"
    /\ lookup.pc = "iter"
    /\ pid \in tracker.pid_set \ lookup.visited
    /\ lookup' = IF LookupHit(tracker, lookup.kind, lookup.a, lookup.b, pid)
                 THEN [lookup EXCEPT !.pc = "done", !.result = TRUE]
                 ELSE [lookup EXCEPT !.visited = @ \cup {pid}]
    /\ last' = NoCall
    /\ pre' = ConnectionTracker_new
    /\ UNCHANGED <<tracker, program, capture_tcp, world, sink, observer, supVars, gta_flows, gta_pids, filter_mode, divert, rx>>

\* the iterator is exhausted: any() ends with false
LookupEnd ==
    /\ program = "index"
    /\ lookup.pc = "iter"
    /\ tracker.pid_set \ lookup.visited = {}
    /\ lookup' = [lookup EXCEPT !.pc = "done", !.result = FALSE]
    /\ last' = NoCall
    /\ pre' = ConnectionTracker_new
    /\ UNCHANGED <<tracker, program, capture_tcp, world, sink, observer, supVars, gta_flows, gta_pids, filter_mode, divert, rx>>

\* a call of the observer's thread that makes the tracker t, beside a lookup
ObserverWrite(t) ==
    /\ program = "index"
    /\ EndpointCount(t) <= MaxEndpoints
    /\ tracker' = t
    /\ lookup' = IF lookup.pc = "iter"
                 THEN [lookup EXCEPT
                         !.seen = @ \cup {AtomicLookup(t, lookup.kind, lookup.a, lookup.b)}]
                 ELSE lookup
    /\ last' = NoCall
    /\ pre' = ConnectionTracker_new
    /\ UNCHANGED <<program, capture_tcp, world, sink, observer, supVars, gta_flows, gta_pids, filter_mode, divert, rx>>

NextLookup ==
    \/ \E a \in {0, 6672} : LookupStart("udp", a, 0)
    \/ \E c \in {<<443, 50000>>, <<50000, 0>>} : LookupStart("tcp", c[1], c[2])
    \/ \E pid \in LookupPids : LookupVisit(pid)
    \/ LookupEnd
    \/ \E pid \in LookupPids : ObserverWrite(add_process(tracker, pid))
    \/ \E pid \in LookupPids : ObserverWrite(remove_process(tracker, pid))
    \/ \E pid \in LookupPids : ObserverWrite(add_udp_endpoint(tracker, pid, 6672))
    \/ \E pid \in LookupPids : ObserverWrite(remove_udp_endpoint(tracker, pid, 6672))
    \/ \E pid \in LookupPids : ObserverWrite(add_tcp_connection(tracker, pid, 50000, 443))
    \/ \E pid \in LookupPids : ObserverWrite(remove_tcp_connection(tracker, pid, 50000, 443))

SpecLookup == InitIndex /\ [][NextLookup]_vars

\* C37: a lookup that runs beside writes of the observer answers what a
\* lookup taken in one step would have answered in one of the states the
\* tracker went through between its start and its end; so if in every such
\* state some tracked process had the port registered, it answers true.
C37_LookupLinearizable ==
    lookup.pc = "done" => lookup.result \in lookup.seen


\* C38: every key of the flow set was inserted for a process id that is in
\* the tracked pid set: once the deletion event of a process is applied, no
\* flow inserted for it remains.
C38_FlowsBelongToTrackedPids ==
    program = "guard" =>
        /\ {i.key : i \in world.inserted} = gta_flows
        /\ \A i \in world.inserted : i.pid \in gta_pids

\* C40: once the GUI worker has consumed every MonitorEvent sent, flow_count
\* is the number of keys in the flow set.
C40_FlowCount ==
    (program = "guard" /\ sink.monitor_rx = <<>>) => sink.flow_count = Cardinality(gta_flows)

====
